---- MODULE Spec2Model ----
(***************************************************************************)
(* Rule extraction pipeline of the memory service:                         *)
(*   apps/memory-service/src/memory_processor.py  (SharedMemoryProcessor)  *)
(*   apps/memory-service/src/api_keys.py          (APIKeyManager)          *)
(*                                                                         *)
(* Text is a sequence of tokens (single characters, or whole words where   *)
(* the code never looks inside them).  A Python dict is a function whose   *)
(* DOMAIN is the set of keys that are present.                             *)
(***************************************************************************)
EXTENDS Integers, Sequences, FiniteSets, TLC

VARIABLES
    \* ---- SharedMemoryProcessor and one batch_process_histories call ----
    memory,            \* TRUE iff self.memory is not None
    chat_history_ids,  \* argument: list of ids
    messages_by_id,    \* argument: dict id -> list of raw messages
    pc,                \* control point of the batch
    idx,               \* position of the for loop in chat_history_ids
    results,           \* the local list `results`
    similar_memories,  \* the local dict `similar_memories`
    request,           \* argument of the external call issued last
    responses,         \* history: the completion responses received, in order
    inflight,          \* external calls issued and not yet returned
    trace,             \* history: stage and call events, in order
    \* ---- APIKeyManager ----
    cache,             \* self._cache: dict cache key -> api key
    environ,           \* os.environ: dict variable name -> value
    db,                \* rows of the llm_api_keys table
    last,              \* history: the manager call made last and what it did
    fresh,             \* history: cache keys inserted since the last clear_cache
    resolved,          \* history: (provider, hint) -> value last returned for it since the last clear_cache
    before_clear,      \* history: the cache as it was when clear_cache was last called
    ncalls,            \* number of manager calls made
    \* ---- SharedMemoryProcessor.__init__ ----
    settings,          \* the Settings instance
    processor,         \* outcome of the construction
    listed,            \* history: the get_all_memories call made on the constructed processor
    \* ---- the extraction caller on its own ----
    completion,        \* a completion response: [wrap, core, blocks]
    extracted,         \* what _extract_rules_with_context made of it
    \* ---- the normalizer and the formatting helpers on their own ----
    raw_messages,      \* a list of raw messages
    mem0_messages,     \* what _transform_messages_for_mem0 made of it
    conversation_text, \* what _format_conversation made of it
    search_result,     \* a dict as memory.search returns it
    mem0_context,      \* what _format_memories made of it
    full_prompt,       \* the assembled prompt of _extract_rules_with_context
    \* ---- the HTTP endpoint extract_rules (main.py) ----
    req_ids,           \* request.chat_history_ids
    chat_histories,    \* the chat_histories table: dict id -> messages
    http_pc,           \* control point of the handler
    fetched,           \* the local dict messages_by_id, once fetched
    raised_exc,        \* the exception raised inside the try block, if any
    batch_called,      \* history: batch_process_histories was called
    response,          \* the HTTP response
    \* ---- several threads on one APIKeyManager ----
    tpc,               \* per thread: control point inside get_api_key
    tlocal,            \* per thread: locals of the call in progress
    tret,              \* per thread, history: how its last get_api_key ended
    tops,              \* per thread: number of calls it has made
    clears,            \* history: number of clear_cache calls that have returned
    \* ---- _store_extracted_rules (main.py) ----
    rules_in,          \* argument: the list of rule candidates
    store_i,           \* position of the for loop in rules_in
    store_pc,          \* control point inside the loop body
    extracted_rules,   \* rows the inserts into extracted_rules returned, in order
    rule_approvals,    \* rows inserted into rule_approvals, in order
    store_log,         \* history: how the storage of each candidate ended
    \* ---- one processor object over several batches ----
    invocations        \* batch_process_histories calls made on the processor so far

batchVars == <<memory, chat_history_ids, messages_by_id, pc, idx, results,
               similar_memories, request, responses, inflight, trace>>
keyVars == <<cache, environ, db, last, fresh, resolved, before_clear, ncalls>>
ctorVars == <<settings, processor, listed>>
fnVars == <<completion, extracted>>

textVars == <<raw_messages, mem0_messages, conversation_text, search_result, mem0_context,
              full_prompt>>

httpVars == <<req_ids, chat_histories, http_pc, fetched, raised_exc, batch_called, response>>

threadVars == <<tpc, tlocal, tret, tops, clears>>

storeVars == <<rules_in, store_i, store_pc, extracted_rules, rule_approvals, store_log>>
lifeVars == <<invocations>>

vars == <<batchVars, keyVars, ctorVars, fnVars, textVars, httpVars, threadVars, storeVars, lifeVars>>
nonBatchVars == <<keyVars, ctorVars, fnVars, textVars, httpVars, threadVars, storeVars, lifeVars>>

----------------------------------------------------------------------------
(* Bounds of the model *)

MaxIds == 2          \* longest chat_history_ids list
MaxMem == 1          \* most results a memory search returns

----------------------------------------------------------------------------
(* Strings *)

Whitespace == {" ", "\n"}

RECURSIVE LStrip(_)
LStrip(s) ==
    IF s # <<>> /\ Head(s) \in Whitespace THEN LStrip(Tail(s)) ELSE s

RECURSIVE RStrip(_)
RStrip(s) ==
    IF s # <<>> /\ s[Len(s)] \in Whitespace
    THEN RStrip(SubSeq(s, 1, Len(s) - 1))
    ELSE s

\* str.strip()
Strip(s) == RStrip(LStrip(s))

\* str.startswith / str.endswith
StartsWith(s, p) == Len(s) >= Len(p) /\ SubSeq(s, 1, Len(p)) = p
EndsWith(s, p) == Len(s) >= Len(p) /\ SubSeq(s, Len(s) - Len(p) + 1, Len(s)) = p

\* s[n:] and s[:-n]
DropFirst(s, n) == SubSeq(s, n + 1, Len(s))
DropLast(s, n) == SubSeq(s, 1, Len(s) - n)

\* dict.get(k, d)
Get(d, k, default) == IF k \in DOMAIN d THEN d[k] ELSE default

RECURSIVE Concat(_)
Concat(ss) == IF ss = <<>> THEN <<>> ELSE Head(ss) \o Concat(Tail(ss))

----------------------------------------------------------------------------
(* json.loads on the token alphabet                                        *)
(*   "[" "]" ","  list syntax;  "A" "B"  an object literal (a rule         *)
(*   candidate, never looked into);  "{" "}"  the empty object;            *)
(*   "1"  a digit;  anything else is not JSON.                             *)

ObjTokens == {"A", "B"}

JList(v) == [t |-> "list", v |-> v, name |-> ""]
JObj(n)  == [t |-> "obj", v |-> <<>>, name |-> n]
JNum     == [t |-> "num", v |-> <<>>, name |-> ""]

JFail == [ok |-> FALSE, val |-> JNum, rest |-> <<>>]
JOk(val, rest) == [ok |-> TRUE, val |-> val, rest |-> rest]

RECURSIVE SkipDigits(_)
SkipDigits(s) == IF s # <<>> /\ Head(s) = "1" THEN SkipDigits(Tail(s)) ELSE s

RECURSIVE ParseValue(_), ParseElems(_, _)
ParseValue(s0) ==
    LET s == LStrip(s0) IN
    IF s = <<>> THEN JFail
    ELSE IF Head(s) = "["
    THEN LET r == LStrip(Tail(s)) IN
         IF r # <<>> /\ Head(r) = "]"
         THEN JOk(JList(<<>>), Tail(r))
         ELSE ParseElems(r, <<>>)
    ELSE IF Head(s) \in ObjTokens THEN JOk(JObj(Head(s)), Tail(s))
    ELSE IF Head(s) = "{"
    THEN LET r == LStrip(Tail(s)) IN
         IF r # <<>> /\ Head(r) = "}" THEN JOk(JObj(""), Tail(r)) ELSE JFail
    ELSE IF Head(s) = "1" THEN JOk(JNum, SkipDigits(s))
    ELSE JFail

ParseElems(s, acc) ==
    LET e == ParseValue(s) IN
    IF ~e.ok THEN JFail
    ELSE LET r == LStrip(e.rest) IN
         IF r = <<>> THEN JFail
         ELSE IF Head(r) = "," THEN ParseElems(Tail(r), Append(acc, e.val))
         ELSE IF Head(r) = "]" THEN JOk(JList(Append(acc, e.val)), Tail(r))
         ELSE JFail

\* json.loads(content): ok = FALSE stands for JSONDecodeError
JsonLoads(content) ==
    LET e == ParseValue(content) IN
    IF e.ok /\ LStrip(e.rest) = <<>> THEN e ELSE JFail

----------------------------------------------------------------------------
(* Conversation Normalizer and formatting helpers (memory_processor.py)     *)

\* variant: the display text is preferred to the content
ResolveDisplayFirst(msg) ==
    LET d == Get(msg, "display", <<>>) IN
    IF d # <<>> THEN d ELSE Get(msg, "content", <<>>)

\* msg.get("content") or msg.get("display", "")
ResolveContent(msg) ==
    LET c == Get(msg, "content", <<>>) IN
    IF c # <<>> THEN c ELSE Get(msg, "display", <<>>)

\* _transform_messages_for_mem0
TransformMessagesForMem0(messages) ==
    LET turn(m) == [role |-> Get(m, "role", "user"), content |-> ResolveContent(m)]
    IN  SelectSeq([i \in 1..Len(messages) |-> turn(messages[i])],
                  LAMBDA t : t.content # <<>>)

\* str.upper() on the role names that occur
Upper(role) ==
    CASE role = "user" -> "USER"
      [] role = "assistant" -> "ASSISTANT"
      [] role = "system" -> "SYSTEM"
      [] role = "unknown" -> "UNKNOWN"
      [] OTHER -> role

\* sep.join(lines)
RECURSIVE Join(_, _)
Join(sep, lines) ==
    IF lines = <<>> THEN <<>>
    ELSE IF Len(lines) = 1 THEN lines[1]
    ELSE lines[1] \o sep \o Join(sep, Tail(lines))

\* variant: the rendering uses the normalizer's default role
FormatConversationDefaultUser(messages) ==
    LET line(m) == <<Upper(Get(m, "role", "user")), ":", " ">> \o ResolveContent(m)
    IN  Join(<<"\n", "\n">>, [i \in 1..Len(messages) |-> line(messages[i])])

\* _format_conversation
FormatConversation(messages) ==
    LET line(m) == <<Upper(Get(m, "role", "unknown")), ":", " ">> \o ResolveContent(m)
    IN  Join(<<"\n", "\n">>, [i \in 1..Len(messages) |-> line(messages[i])])

NoSimilarMemories == <<"No similar memories found.">>

\* variant: the lines are numbered from 0
FormatMemoriesFromZero(sm) ==
    IF DOMAIN sm = {} \/ "results" \notin DOMAIN sm THEN NoSimilarMemories
    ELSE LET rs == sm["results"]
             line(i) == <<ToString(i - 1), ".", " ">> \o Get(rs[i], "memory", <<>>)
             lines == [i \in 1..Len(rs) |-> line(i)]
         IN  IF lines # <<>> THEN Join(<<"\n">>, lines) ELSE NoSimilarMemories

\* _format_memories
FormatMemories(sm) ==
    IF DOMAIN sm = {} \/ "results" \notin DOMAIN sm THEN NoSimilarMemories
    ELSE LET rs == sm["results"]
             line(i) == <<ToString(i), ".", " ">> \o Get(rs[i], "memory", <<>>)
             lines == [i \in 1..Len(rs) |-> line(i)]
         IN  IF lines # <<>> THEN Join(<<"\n">>, lines) ELSE NoSimilarMemories

\* _get_default_prompt: the fixed text around the two placeholders
DefaultPrompt ==
    <<"Analyze the following conversation ... Conversation:\n",
      "{conversation_text}",
      "\n\nContext from similar sessions (via mem0):\n",
      "{mem0_context}",
      "\n\nExtract only high-quality, actionable rules. ...">>

\* str.replace(old, new), old a single token
Replace(s, old, new) ==
    Concat([i \in 1..Len(s) |-> IF s[i] = old THEN new ELSE <<s[i]>>])

\* variant: the memory slot is filled before the conversation slot
FullPromptMemoryFirst(messages, sm) ==
    Replace(Replace(DefaultPrompt, "{mem0_context}", FormatMemories(sm)),
            "{conversation_text}", FormatConversation(messages))

\* full_prompt of _extract_rules_with_context (lines 215-228)
FullPrompt(messages, sm) ==
    Replace(Replace(DefaultPrompt, "{conversation_text}", FormatConversation(messages)),
            "{mem0_context}", FormatMemories(sm))

----------------------------------------------------------------------------
(* Extraction Caller: from the completion response to the rules (240-263)   *)

\* the backquote character (written as a word: the character itself cannot
\* appear in a string of this language)
Backquote == "<backquote>"
Fence == <<Backquote, Backquote, Backquote>>
FenceJson == Fence \o <<"j", "s", "o", "n">>

\* variant: the closing fence is left in place
StripCodeFenceOpenerOnly(text) ==
    LET c1 == Strip(text)
        c2 == IF StartsWith(c1, FenceJson) THEN DropFirst(c1, 7)
              ELSE IF StartsWith(c1, Fence) THEN DropFirst(c1, 3)
              ELSE c1
    IN  Strip(c2)

\* lines 244-253
StripCodeFence(text) ==
    LET c1 == Strip(text)
        c2 == IF StartsWith(c1, FenceJson) THEN DropFirst(c1, 7)
              ELSE IF StartsWith(c1, Fence) THEN DropFirst(c1, 3)
              ELSE c1
        c3 == IF EndsWith(c2, Fence) THEN DropLast(c2, 3) ELSE c2
    IN  Strip(c3)

\* line 241: response.content[0].text if response.content else "[]"
FirstBlockText(resp) == IF resp # <<>> THEN resp[1] ELSE <<"[", "]">>

Returned(rules) == [raised |-> FALSE, rules |-> rules]
Raised == [raised |-> TRUE, rules |-> <<>>]

\* variant without the try/except and the isinstance test
ParseRulesUnguarded(content) ==
    LET r == JsonLoads(content) IN
    IF ~r.ok THEN Raised
    ELSE IF r.val.t # "list" THEN Returned(<<r.val>>)
    ELSE Returned(r.val.v)

\* lines 255-263
ParseRules(content) ==
    LET r == JsonLoads(content) IN
    IF ~r.ok THEN Returned(<<>>)                  \* except json.JSONDecodeError
    ELSE IF r.val.t # "list" THEN Returned(<<>>)  \* not isinstance(rules, list)
    ELSE Returned(r.val.v)

\* lines 240-263
ExtractRules(resp) == ParseRules(StripCodeFence(FirstBlockText(resp)))

----------------------------------------------------------------------------
(* Inputs of a batch and answers of the external services                   *)

Ids == {"a", "b"}

IdSeqs == UNION {[1..n -> Ids] : n \in 0..MaxIds}

\* raw turns: {role?, content?, display?}
MsgUser      == [role |-> "user", content |-> <<"h", "i">>]
MsgDisplay   == [role |-> "assistant", display |-> <<"o", "k">>]
MsgBlank     == [content |-> <<>>, display |-> <<" ">>]
MsgNoText    == [role |-> "user"]

MsgLists == {<<>>, <<MsgUser, MsgDisplay, MsgBlank>>, <<MsgNoText>>}

\* dicts id -> messages; an id may be missing
MessageMaps == UNION {[D -> MsgLists] : D \in SUBSET Ids}

\* what memory.search may return: a dict, normally with a "results" list
Memories(n) == [i \in 1..n |-> [memory |-> <<"m", ToString(i)>>]]
SearchResponses ==
    {[results |-> Memories(n)] : n \in 0..MaxMem} \cup {[relations |-> <<>>]}

\* number of hits the service reported in a search response
Hits(r) == IF "results" \in DOMAIN r THEN Len(r["results"]) ELSE 0

\* completion responses: the list of content blocks, each a text
TxtList    == <<"[", "A", "]">>
TxtFenced  == Fence \o <<"j", "s", "o", "n", "\n", "[", "A", ",", " ", "B", "]", "\n">> \o Fence
TxtNotJson == <<"n", "o", "t", " ", "j", "s", "o", "n">>
TxtObject  == <<"A">>

Responses == {<<TxtList>>, <<TxtFenced>>, <<TxtNotJson>>, <<TxtObject>>}

\* the response is malformed: its text is not JSON, or JSON that is not a list
Malformed(resp) ==
    resp # <<>> /\ resp[1] \in {TxtNotJson, TxtObject}

----------------------------------------------------------------------------
(* SharedMemoryProcessor.batch_process_histories / process_chat_history     *)

Ev(e, i) == [ev |-> e, i |-> i, n |-> 0]
EvN(e, i, n) == [ev |-> e, i |-> i, n |-> n]
Call(op, i) == [op |-> op, i |-> i]
NoRequest == [op |-> "none", arg |-> <<>>]

\* variant: the gateway is taken to be there always
MemoryEnabledAlways(m) == TRUE

\* self.memory is not None (lines 98, 179)
MemoryEnabled(m) == m

\* messages_by_id.get(chat_id, []) (line 189)
MessagesFor(mbi, chat_id) == Get(mbi, chat_id, <<>>)

\* variant: the emptiness test is missing
HasNoMessagesNever(messages) == FALSE

\* not messages (line 190)
HasNoMessages(messages) == messages = <<>>

\* variant: the length of the dict instead of its "results" list
SimilarMemoryCountOfDict(sm) == Cardinality(DOMAIN sm)

\* len(similar_memories.get("results", [])) (line 133)
SimilarMemoryCount(sm) == Len(Get(sm, "results", <<>>))

\* the returned dict (lines 130-134)
Result(chat_id, rules, sm) ==
    [chat_history_id |-> chat_id, rules |-> rules,
     similar_memory_count |-> SimilarMemoryCount(sm)]

\* variant: results.insert(0, result)
PrependResult(rs, r) == <<r>> \o rs

\* variant: an id that already has a result gets no second one
AppendResultOnce(rs, r) ==
    IF \E k \in 1..Len(rs) : rs[k].chat_history_id = r.chat_history_id
    THEN rs
    ELSE Append(rs, r)

\* results.append(result) (line 195)
AppendResult(rs, r) == Append(rs, r)

CurrentId == chat_history_ids[idx]
CurrentMessages == MessagesFor(messages_by_id, CurrentId)

InitBatch ==
    /\ memory \in BOOLEAN
    /\ chat_history_ids \in IdSeqs
    /\ messages_by_id \in MessageMaps
    /\ pc = "start"
    /\ idx = 1
    /\ results = <<>>
    /\ similar_memories = [results |-> <<>>]
    /\ request = NoRequest
    /\ responses = <<>>
    /\ inflight = {}
    /\ trace = <<>>

\* lines 176-187, gateway disabled: straight to the loop
BatchBeginNoMemory ==
    /\ pc = "start"
    /\ ~MemoryEnabled(memory)
    /\ pc' = "loop"
    /\ UNCHANGED <<nonBatchVars, memory, chat_history_ids, messages_by_id, idx, results,
                   similar_memories, request, responses, inflight, trace>>

\* lines 179-180 and 146-152: get_all_memories issues memory.get_all
BatchBeginGetAll ==
    /\ pc = "start"
    /\ MemoryEnabled(memory)
    /\ pc' = "get_all"
    /\ request' = [op |-> "get_all", arg |-> <<>>]
    /\ inflight' = inflight \cup {Call("get_all", 0)}
    /\ trace' = Append(trace, Ev("get_all", 0))
    /\ UNCHANGED <<nonBatchVars, memory, chat_history_ids, messages_by_id, idx, results,
                   similar_memories, responses>>

\* what memory.get_all may do: raise, or return the stored memories
GetAllOutcomes == {[status |-> "exc", data |-> <<>>], [status |-> "ok", data |-> Memories(MaxMem)]}

\* variant: get_all_memories without its try/except
GetAllMemoriesUncaught(enabled, outcome) ==
    IF ~enabled
    THEN [raised |-> FALSE, ret |-> <<>>, invoked |-> FALSE]
    ELSE [raised |-> outcome.status = "exc", ret |-> outcome.data, invoked |-> TRUE]

\* get_all_memories (lines 136-157); `outcome` is what memory.get_all does
\* if it is invoked
GetAllMemories(enabled, outcome) ==
    IF ~enabled
    THEN [raised |-> FALSE, ret |-> <<>>, invoked |-> FALSE]
    ELSE IF outcome.status = "exc"
    THEN [raised |-> FALSE, ret |-> <<>>, invoked |-> TRUE]
    ELSE [raised |-> FALSE, ret |-> outcome.data, invoked |-> TRUE]

\* lines 152-157 and 180-185: memory.get_all returns or raises inside
\* get_all_memories, whose result the batch only counts
GetAllReturn ==
    /\ pc = "get_all"
    /\ \E o \in GetAllOutcomes :
          LET r == GetAllMemories(MemoryEnabled(memory), o) IN
          /\ trace' = Append(trace, EvN(IF o.status = "exc" THEN "get_all_exc" ELSE "get_all_ret",
                                        0, Len(r.ret)))
          /\ pc' = IF r.raised THEN "raised" ELSE "loop"
    /\ inflight' = inflight \ {Call("get_all", 0)}
    /\ UNCHANGED <<nonBatchVars, memory, chat_history_ids, messages_by_id, idx, results,
                   similar_memories, request, responses>>

\* lines 188-192: no messages for this id
LoopSkip ==
    /\ pc = "loop"
    /\ idx <= Len(chat_history_ids)
    /\ HasNoMessages(CurrentMessages)
    /\ idx' = idx + 1
    /\ trace' = Append(trace, Ev("skip", idx))
    /\ UNCHANGED <<nonBatchVars, memory, chat_history_ids, messages_by_id, pc, results,
                   similar_memories, request, responses, inflight>>

\* variant: memory.add is left out when no turn survives the normalization
ProcessWithMemorySkipsEmptyAdd ==
    /\ pc = "loop"
    /\ idx <= Len(chat_history_ids)
    /\ ~HasNoMessages(CurrentMessages)
    /\ MemoryEnabled(memory)
    /\ similar_memories' = [results |-> <<>>]
    /\ IF TransformMessagesForMem0(CurrentMessages) = <<>>
       THEN /\ request' = [op |-> "search", arg |-> <<>>]
            /\ inflight' = inflight \cup {Call("search", idx)}
            /\ trace' = trace \o <<Ev("normalize", idx), Ev("search", idx)>>
            /\ pc' = "search"
       ELSE /\ request' = [op |-> "add", arg |-> TransformMessagesForMem0(CurrentMessages)]
            /\ inflight' = inflight \cup {Call("add", idx)}
            /\ trace' = trace \o <<Ev("normalize", idx), Ev("add", idx)>>
            /\ pc' = "add"
    /\ UNCHANGED <<nonBatchVars, memory, chat_history_ids, messages_by_id, idx, results, responses>>

\* lines 194, 88-103: process_chat_history, gateway enabled, up to memory.add
ProcessWithMemory ==
    /\ pc = "loop"
    /\ idx <= Len(chat_history_ids)
    /\ ~HasNoMessages(CurrentMessages)
    /\ MemoryEnabled(memory)
    /\ similar_memories' = [results |-> <<>>]
    /\ request' = [op |-> "add", arg |-> TransformMessagesForMem0(CurrentMessages)]
    /\ inflight' = inflight \cup {Call("add", idx)}
    /\ trace' = trace \o <<Ev("normalize", idx), Ev("add", idx)>>
    /\ pc' = "add"
    /\ UNCHANGED <<nonBatchVars, memory, chat_history_ids, messages_by_id, idx, results, responses>>

\* lines 194, 88-98, 120-121: process_chat_history, gateway disabled
ProcessNoMemory ==
    /\ pc = "loop"
    /\ idx <= Len(chat_history_ids)
    /\ ~HasNoMessages(CurrentMessages)
    /\ ~MemoryEnabled(memory)
    /\ similar_memories' = [results |-> <<>>]
    /\ pc' = "extract"
    /\ UNCHANGED <<nonBatchVars, memory, chat_history_ids, messages_by_id, idx, results,
                   request, responses, inflight, trace>>

\* lines 103-113: memory.add returned; memory.search is issued
AddReturn ==
    /\ pc = "add"
    /\ request' = [op |-> "search", arg |-> <<"coding conventions, repeated corrections, workflow preferences">>]
    /\ inflight' = (inflight \ {Call("add", idx)}) \cup {Call("search", idx)}
    /\ trace' = trace \o <<Ev("add_ret", idx), Ev("search", idx)>>
    /\ pc' = "search"
    /\ UNCHANGED <<nonBatchVars, memory, chat_history_ids, messages_by_id, idx, results,
                   similar_memories, responses>>

\* variant: a failing memory.add is swallowed and the conversation goes on
\* without memory context
AddRaiseCaught ==
    /\ pc = "add"
    /\ inflight' = inflight \ {Call("add", idx)}
    /\ trace' = Append(trace, Ev("add_exc", idx))
    /\ pc' = "extract"
    /\ UNCHANGED <<nonBatchVars, memory, chat_history_ids, messages_by_id, idx, results,
                   similar_memories, request, responses>>

\* variant: a failing memory.add makes the processor drop its gateway handle
AddRaiseDropsGateway ==
    /\ pc = "add"
    /\ inflight' = inflight \ {Call("add", idx)}
    /\ trace' = Append(trace, Ev("add_exc", idx))
    /\ pc' = "raised"
    /\ processor' = [processor EXCEPT !.memory = "None"]
    /\ UNCHANGED <<keyVars, settings, listed, fnVars, textVars, httpVars, threadVars,
                   storeVars, lifeVars, memory, chat_history_ids, messages_by_id, idx,
                   results, similar_memories, request, responses>>

\* line 103: memory.add raised; nothing catches it
AddRaise ==
    /\ pc = "add"
    /\ inflight' = inflight \ {Call("add", idx)}
    /\ trace' = Append(trace, Ev("add_exc", idx))
    /\ pc' = "raised"
    /\ UNCHANGED <<nonBatchVars, memory, chat_history_ids, messages_by_id, idx, results,
                   similar_memories, request, responses>>

\* lines 109-118: memory.search returned
SearchReturn ==
    /\ pc = "search"
    /\ \E r \in SearchResponses :
          /\ similar_memories' = r
          /\ trace' = Append(trace, EvN("search_ret", idx, Hits(r)))
    /\ inflight' = inflight \ {Call("search", idx)}
    /\ pc' = "extract"
    /\ UNCHANGED <<nonBatchVars, memory, chat_history_ids, messages_by_id, idx, results,
                   request, responses>>

\* line 109: memory.search raised; nothing catches it
SearchRaise ==
    /\ pc = "search"
    /\ inflight' = inflight \ {Call("search", idx)}
    /\ trace' = Append(trace, Ev("search_exc", idx))
    /\ pc' = "raised"
    /\ UNCHANGED <<nonBatchVars, memory, chat_history_ids, messages_by_id, idx, results,
                   similar_memories, request, responses>>

\* lines 124, 215-238: the prompt is assembled and the completion call issued
AssembleAndCall ==
    /\ pc = "extract"
    /\ request' = [op |-> "completion", arg |-> FullPrompt(CurrentMessages, similar_memories)]
    /\ inflight' = inflight \cup {Call("completion", idx)}
    /\ trace' = trace \o <<Ev("assemble", idx), Ev("completion", idx)>>
    /\ pc' = "llm"
    /\ UNCHANGED <<nonBatchVars, memory, chat_history_ids, messages_by_id, idx, results,
                   similar_memories, responses>>

\* lines 233-263, 128-134, 195: the completion returned; parse, build the
\* result, append it, next id
CompletionReturn ==
    /\ pc = "llm"
    /\ \E resp \in Responses :
          LET r == ExtractRules(resp) IN
          /\ responses' = Append(responses, resp)
          /\ IF r.raised
             THEN /\ pc' = "raised"
                  /\ trace' = trace \o <<Ev("completion_ret", idx), Ev("extract_exc", idx)>>
                  /\ UNCHANGED <<results, idx>>
             ELSE /\ pc' = "loop"
                  /\ results' = AppendResult(results, Result(CurrentId, r.rules, similar_memories))
                  /\ trace' = trace \o <<Ev("completion_ret", idx), Ev("result", idx)>>
                  /\ idx' = idx + 1
    /\ inflight' = inflight \ {Call("completion", idx)}
    /\ UNCHANGED <<nonBatchVars, memory, chat_history_ids, messages_by_id, similar_memories, request>>

\* variant: a failed completion call is retried until it succeeds, the
\* failed attempt leaving no record
CompletionRaiseRetries ==
    /\ pc = "llm"
    /\ inflight' = inflight \ {Call("completion", idx)}
    /\ trace' = SubSeq(trace, 1, Len(trace) - 2)
    /\ pc' = "extract"
    /\ UNCHANGED <<nonBatchVars, memory, chat_history_ids, messages_by_id, idx, results,
                   similar_memories, request, responses>>

\* line 233: the completion call raised; nothing catches it
CompletionRaise ==
    /\ pc = "llm"
    /\ inflight' = inflight \ {Call("completion", idx)}
    /\ trace' = Append(trace, Ev("completion_exc", idx))
    /\ pc' = "raised"
    /\ UNCHANGED <<nonBatchVars, memory, chat_history_ids, messages_by_id, idx, results,
                   similar_memories, request, responses>>

\* lines 197-198: the loop is over, results is returned
BatchReturn ==
    /\ pc = "loop"
    /\ idx > Len(chat_history_ids)
    /\ pc' = "done"
    /\ UNCHANGED <<nonBatchVars, memory, chat_history_ids, messages_by_id, idx, results,
                   similar_memories, request, responses, inflight, trace>>

NextBatch ==
    \/ BatchBeginNoMemory
    \/ BatchBeginGetAll
    \/ GetAllReturn
    \/ LoopSkip
    \/ ProcessWithMemory
    \/ ProcessNoMemory
    \/ AddReturn
    \/ AddRaise
    \/ SearchReturn
    \/ SearchRaise
    \/ AssembleAndCall
    \/ CompletionReturn
    \/ CompletionRaise
    \/ BatchReturn

----------------------------------------------------------------------------
(* APIKeyManager (api_keys.py)                                              *)

MaxCalls == 3        \* manager calls in one behaviour

\* Python's None where a string is expected
None == "<None>"

\* variant: only None counts as missing
FalsyOnlyNone(x) == x = None

\* not x, for x an Optional[str]
Falsy(x) == x = None \/ x = ""

\* Optional[str] arguments: the hint env_var_name
NoHint == [some |-> FALSE, s |-> <<>>]
Hint(s) == [some |-> TRUE, s |-> s]

\* how an f-string renders an Optional[str]
FormatOptional(h) == IF h.some THEN h.s ELSE <<"None">>

\* cache_key = f"{provider}:{env_var_name}" (line 51)
CacheKey(provider, hint) == provider \o <<":">> \o FormatOptional(hint)

\* variant: the cache is never consulted
CacheHitNever(c, k) == FALSE

\* cache_key in self._cache (line 52)
CacheHit(c, k) == k \in DOMAIN c

\* variant: a resolved value is not kept
CachePutNothing(c, k, v) == c

\* self._cache[cache_key] = value (lines 60, 73)
CachePut(c, k, v) == [x \in DOMAIN c \cup {k} |-> IF x = k THEN v ELSE c[x]]

\* variant: clear_cache leaves the entries in place
ClearedCacheKept(c) == c

\* self._cache.clear() (line 99)
ClearedCache(c) == [x \in {} |-> None]

\* os.getenv(name)
Getenv(env, name) == Get(env, name, None)

\* the query of lines 66-68: active rows of the provider, is_default desc,
\* created_at desc, limit 1; rows that tie may come in either order
Candidates(rows, provider) == {r \in rows : r.provider = provider /\ r.is_active}
\* variant: the rows are ordered by recency alone
BeforeByRecency(a, b) == a.created_at > b.created_at

Before(a, b) ==
    \/ a.is_default /\ ~b.is_default
    \/ a.is_default = b.is_default /\ a.created_at > b.created_at
FirstRows(rows, provider) ==
    {r \in Candidates(rows, provider) :
        \A o \in Candidates(rows, provider) : ~Before(o, r)}

\* what executing the query can produce: response.data, or an exception
NotQueried == [status |-> "none", data |-> <<>>]
DbException == [status |-> "exc", data |-> <<>>]
DbData(data) == [status |-> "ok", data |-> data]
DbOutcomes(rows, provider) ==
    {DbException}
    \cup {DbData(<<r>>) : r \in FirstRows(rows, provider)}
    \cup (IF Candidates(rows, provider) = {} THEN {DbData(<<>>)} ELSE {})

\* variant: get_api_key without the try/except around the query
GetApiKeyUncaught(c, env, dbres, provider, hint) ==
    LET k == CacheKey(provider, hint)
        use_env == hint.some /\ hint.s # <<>>
        env_value == IF use_env THEN Getenv(env, hint.s) ELSE None
    IN  IF CacheHit(c, k)
        THEN [ret |-> c[k], cache |-> c, from_cache |-> TRUE,
              env_read |-> FALSE, db_queried |-> FALSE, raised |-> FALSE]
        ELSE IF use_env /\ ~Falsy(env_value)
        THEN [ret |-> env_value, cache |-> CachePut(c, k, env_value), from_cache |-> FALSE,
              env_read |-> TRUE, db_queried |-> FALSE, raised |-> FALSE]
        ELSE IF dbres.status = "ok" /\ Len(dbres.data) > 0
        THEN [ret |-> dbres.data[1].api_key,
              cache |-> CachePut(c, k, dbres.data[1].api_key), from_cache |-> FALSE,
              env_read |-> use_env, db_queried |-> TRUE, raised |-> FALSE]
        ELSE [ret |-> None, cache |-> c, from_cache |-> FALSE,
              env_read |-> use_env, db_queried |-> TRUE, raised |-> dbres.status = "exc"]

\* get_api_key (lines 39-83): the value returned, the cache afterwards, and
\* which sources were consulted; dbres is what the query produces if executed
GetApiKey(c, env, dbres, provider, hint) ==
    LET k == CacheKey(provider, hint)
        use_env == hint.some /\ hint.s # <<>>
        env_value == IF use_env THEN Getenv(env, hint.s) ELSE None
    IN  IF CacheHit(c, k)
        THEN [ret |-> c[k], cache |-> c, from_cache |-> TRUE,
              env_read |-> FALSE, db_queried |-> FALSE, raised |-> FALSE]
        ELSE IF use_env /\ ~Falsy(env_value)
        THEN [ret |-> env_value, cache |-> CachePut(c, k, env_value), from_cache |-> FALSE,
              env_read |-> TRUE, db_queried |-> FALSE, raised |-> FALSE]
        ELSE IF dbres.status = "ok" /\ Len(dbres.data) > 0
        THEN [ret |-> dbres.data[1].api_key,
              cache |-> CachePut(c, k, dbres.data[1].api_key), from_cache |-> FALSE,
              env_read |-> use_env, db_queried |-> TRUE, raised |-> FALSE]
        ELSE [ret |-> None, cache |-> c, from_cache |-> FALSE,
              env_read |-> use_env, db_queried |-> TRUE, raised |-> FALSE]

\* the callers' arguments and the surroundings of the manager
ProvAnthropic == <<"anthropic">>
ProvOpenai == <<"openai">>
ProvMem0 == <<"mem0">>
Providers == {ProvAnthropic, ProvOpenai}

EnvAnthropic == <<"ANTHROPIC_API_KEY">>
EnvOpenai == <<"OPENAI_API_KEY">>
EnvMem0 == <<"MEM0_API_KEY">>
Hints == {NoHint, Hint(EnvAnthropic), Hint(<<"None">>)}

Pairs == Providers \X Hints

EnvStates ==
    { [x \in {} |-> None],
      [x \in {EnvAnthropic} |-> "env-1"],
      [x \in {EnvAnthropic} |-> ""],
      [x \in {EnvAnthropic, <<"None">>} |-> IF x = EnvAnthropic THEN "env-2" ELSE "env-3"] }

Row(p, active, default, at, key) ==
    [provider |-> p, is_active |-> active, is_default |-> default,
     created_at |-> at, api_key |-> key]
RowOld      == Row(ProvAnthropic, TRUE, FALSE, 1, "db-old")
RowNew      == Row(ProvAnthropic, TRUE, FALSE, 2, "db-new")
RowDefault  == Row(ProvAnthropic, TRUE, TRUE, 1, "db-default")
RowInactive == Row(ProvAnthropic, FALSE, TRUE, 3, "db-inactive")
RowOpenai   == Row(ProvOpenai, TRUE, FALSE, 1, "db-openai")

DbStates ==
    { {}, {RowOld, RowInactive}, {RowOld, RowNew, RowOpenai},
      {RowOld, RowNew, RowDefault, RowInactive, RowOpenai} }

NoCall ==
    [op |-> "none", provider |-> <<>>, hint |-> NoHint, ret |-> None, key |-> <<>>,
     from_cache |-> FALSE, env_read |-> FALSE, db_queried |-> FALSE,
     dbres |-> NotQueried, env_now |-> None, prior |-> None, prev |-> "none",
     raised |-> FALSE, stored |-> None, cache_kept |-> TRUE, rows |-> {}]

InitKeys ==
    /\ cache = [x \in {} |-> None]      \* line 30
    /\ environ \in EnvStates
    /\ db \in DbStates
    /\ last = NoCall
    /\ fresh = {}
    /\ resolved = [q \in Pairs |-> None]
    /\ before_clear = [x \in {} |-> None]
    /\ ncalls = 0

IdleKeys ==
    /\ cache = [x \in {} |-> None]
    /\ environ = [x \in {} |-> None]
    /\ db = {}
    /\ last = NoCall
    /\ fresh = {}
    /\ resolved = [q \in Pairs |-> None]
    /\ before_clear = [x \in {} |-> None]
    /\ ncalls = 0

\* a call of get_api_key(provider, hint)
CallGetApiKey ==
    /\ ncalls < MaxCalls
    /\ \E p \in Providers, h \in Hints :
       \E dbres \in DbOutcomes(db, p) :
          LET r == GetApiKey(cache, environ, dbres, p, h) IN
          /\ cache' = r.cache
          /\ last' = [op |-> "get", provider |-> p, hint |-> h, ret |-> r.ret,
                      key |-> CacheKey(p, h),
                      from_cache |-> r.from_cache, env_read |-> r.env_read,
                      db_queried |-> r.db_queried,
                      dbres |-> IF r.db_queried THEN dbres ELSE NotQueried,
                      env_now |-> IF h.some THEN Getenv(environ, h.s) ELSE None,
                      prior |-> resolved[<<p, h>>], prev |-> last.op,
                      raised |-> r.raised,
                      stored |-> Get(r.cache, CacheKey(p, h), None),
                      cache_kept |-> r.cache = cache,
                      rows |-> IF r.db_queried THEN db ELSE {}]
          /\ fresh' = IF r.cache # cache THEN fresh \cup {CacheKey(p, h)} ELSE fresh
          /\ resolved' = IF r.ret # None THEN [resolved EXCEPT ![<<p, h>>] = r.ret]
                         ELSE resolved
    /\ ncalls' = ncalls + 1
    /\ UNCHANGED <<environ, db, before_clear, batchVars, ctorVars, fnVars, textVars, httpVars, threadVars, storeVars, lifeVars>>

\* a call of clear_cache() (lines 97-100)
CallClearCache ==
    /\ ncalls < MaxCalls
    /\ cache' = ClearedCache(cache)
    /\ last' = [NoCall EXCEPT !.op = "clear", !.prev = last.op]
    /\ fresh' = {}
    /\ resolved' = [q \in Pairs |-> None]
    /\ before_clear' = cache
    /\ ncalls' = ncalls + 1
    /\ UNCHANGED <<environ, db, batchVars, ctorVars, fnVars, textVars, httpVars, threadVars, storeVars, lifeVars>>

\* the process environment changes between two calls
EnvironChanges ==
    /\ ncalls < MaxCalls
    /\ environ' \in EnvStates \ {environ}
    /\ UNCHANGED <<cache, db, last, fresh, resolved, before_clear, ncalls, batchVars, ctorVars, fnVars, textVars, httpVars, threadVars, storeVars, lifeVars>>

\* the llm_api_keys table changes between two calls (key rotation)
DbChanges ==
    /\ ncalls < MaxCalls
    /\ db' \in DbStates \ {db}
    /\ UNCHANGED <<cache, environ, last, fresh, resolved, before_clear, ncalls, batchVars, ctorVars, fnVars, textVars, httpVars, threadVars, storeVars, lifeVars>>

NextKeys ==
    \/ CallGetApiKey
    \/ CallClearCache
    \/ EnvironChanges
    \/ DbChanges

----------------------------------------------------------------------------
(* SharedMemoryProcessor.__init__ (memory_processor.py, lines 31-69)        *)

\* Python's  a or b  on Optional[str]
Or(a, b) == IF ~Falsy(a) THEN a ELSE b

\* variant: the language-model key is not checked at construction
AnthropicKeyNotChecked(k) == FALSE

\* not anthropic_key (line 64)
AnthropicKeyMissing(k) == Falsy(k)

\* variant: the self-hosted gateway is built whatever the embedding key is
SelfHostedMemoryAlways(openai_key) == "Memory"

\* self-hosted mode (lines 53-61): Memory() with an embedding key, None without
SelfHostedMemory(openai_key) == IF ~Falsy(openai_key) THEN "Memory" ELSE "None"

\* os.environ[name] = value (line 55)
Setenv(env, name, value) ==
    [x \in DOMAIN env \cup {name} |-> IF x = name THEN value ELSE env[x]]

\* a settings value that is set wins; otherwise the manager is asked
\* (lines 40-42: settings.<key> or self.api_key_manager.get_<provider>_key())
SettingOrManager(setting, c, env, dbres, provider, hint) ==
    IF ~Falsy(setting)
    THEN [ret |-> setting, cache |-> c, from_cache |-> FALSE,
          env_read |-> FALSE, db_queried |-> FALSE, raised |-> FALSE]
    ELSE GetApiKey(c, env, dbres, provider, hint)

\* __init__: d1, d2, d3 are what the datastore query produces for the
\* anthropic, openai and mem0 lookup if it is executed
ConstructProcessor(st, env, d1, d2, d3) ==
    LET c0 == [x \in {} |-> None]
        a == SettingOrManager(st.anthropic_api_key, c0, env, d1, ProvAnthropic, Hint(EnvAnthropic))
        o == SettingOrManager(st.openai_api_key, a.cache, env, d2, ProvOpenai, Hint(EnvOpenai))
        m == SettingOrManager(st.mem0_api_key, o.cache, env, d3, ProvMem0, Hint(EnvMem0))
        platform == st.mem0_mode = "platform"
        env1 == IF ~platform /\ ~Falsy(o.ret) THEN Setenv(env, EnvOpenai, o.ret) ELSE env
        mem == IF platform THEN "MemoryClient" ELSE SelfHostedMemory(o.ret)
        seen == [anthropic |-> IF a.db_queried THEN d1 ELSE NotQueried,
                 openai |-> IF o.db_queried THEN d2 ELSE NotQueried,
                 mem0 |-> IF m.db_queried THEN d3 ELSE NotQueried]
    IN  IF platform /\ Falsy(m.ret)
        THEN [status |-> "ValueError", message |-> "MEM0_API_KEY required", memory |-> "None",
              anthropic_key |-> None, environ |-> env, cache |-> m.cache, seen |-> seen]
        ELSE IF AnthropicKeyMissing(a.ret)
        THEN [status |-> "ValueError", message |-> "ANTHROPIC_API_KEY required", memory |-> "None",
              anthropic_key |-> None, environ |-> env1, cache |-> m.cache, seen |-> seen]
        ELSE [status |-> "constructed", message |-> "", memory |-> mem,
              anthropic_key |-> a.ret, environ |-> env1, cache |-> m.cache, seen |-> seen]

OptionalKeys(v) == {None, "", v}

SettingsSet ==
    [anthropic_api_key : OptionalKeys("cfg-anthropic"),
     openai_api_key : {None, "cfg-openai"},
     mem0_api_key : {None, "cfg-mem0"},
     mem0_mode : {"self-hosted", "platform"}]

NotListed == [status |-> "none", ret |-> <<>>, invoked |-> FALSE]

NotConstructed ==
    [status |-> "none", message |-> "", memory |-> "None", anthropic_key |-> None,
     environ |-> [x \in {} |-> None], cache |-> [x \in {} |-> None],
     seen |-> [anthropic |-> NotQueried, openai |-> NotQueried, mem0 |-> NotQueried]]

InitCtor ==
    /\ settings \in SettingsSet
    /\ processor = NotConstructed
    /\ listed = NotListed
    /\ cache = [x \in {} |-> None]
    /\ environ \in EnvStates
    /\ db \in DbStates
    /\ last = NoCall
    /\ fresh = {}
    /\ resolved = [q \in Pairs |-> None]
    /\ before_clear = [x \in {} |-> None]
    /\ ncalls = 0

\* SharedMemoryProcessor()
Construct ==
    /\ processor.status = "none"
    /\ \E d1 \in DbOutcomes(db, ProvAnthropic), d2 \in DbOutcomes(db, ProvOpenai),
          d3 \in DbOutcomes(db, ProvMem0) :
          LET p == ConstructProcessor(settings, environ, d1, d2, d3) IN
          /\ processor' = p
          /\ environ' = p.environ
          /\ cache' = p.cache
    /\ UNCHANGED <<settings, listed, db, last, fresh, resolved, before_clear, ncalls,
                   batchVars, fnVars, textVars, httpVars, threadVars, storeVars, lifeVars>>

\* get_all_memories(user_id) on the constructed processor
CallGetAllMemories ==
    /\ processor.status = "constructed"
    /\ listed.status = "none"
    /\ \E o \in GetAllOutcomes :
          LET r == GetAllMemories(processor.memory # "None", o) IN
          listed' = [status |-> IF r.raised THEN "raised" ELSE "returned",
                     ret |-> r.ret, invoked |-> r.invoked]
    /\ UNCHANGED <<settings, processor, keyVars, batchVars, fnVars, textVars, httpVars, threadVars, storeVars, lifeVars>>

NextCtor ==
    \/ Construct
    \/ CallGetAllMemories

----------------------------------------------------------------------------
(* The extraction caller applied to one completion response                 *)

MaxCore == 3         \* longest text inside the fence

CoreAlphabet == {"[", "]", ",", "A", " ", "x", "1", "{", "}"}
Cores == UNION {[1..n -> CoreAlphabet] : n \in 0..MaxCore}

Wraps == {"plain", "json", "bare", "tagged", "padded", "noblocks", "second"}

\* the content blocks of a response that carries `core` in the given wrapping
Blocks(wrap, core) ==
    CASE wrap = "plain"    -> <<core>>
      [] wrap = "json"     -> <<FenceJson \o <<"\n">> \o core \o <<"\n">> \o Fence>>
      [] wrap = "bare"     -> <<Fence \o <<"\n">> \o core \o <<"\n">> \o Fence>>
      [] wrap = "tagged"   -> <<Fence \o <<"p", "y", "\n">> \o core \o <<"\n">> \o Fence>>
      [] wrap = "padded"   -> <<<<" ", "\n">> \o core \o <<"\n", " ">>>>
      [] wrap = "noblocks" -> <<>>
      [] wrap = "second"   -> <<core, <<"[", "B", "]">>>>

Pending == [status |-> "pending", rules |-> <<>>, content |-> <<>>]

InitFn ==
    /\ \E w \in Wraps, core \in Cores :
          completion = [wrap |-> w, core |-> core, blocks |-> Blocks(w, core)]
    /\ extracted = Pending

\* the part of _extract_rules_with_context after the completion call
ExtractCompletion ==
    /\ extracted.status = "pending"
    /\ LET r == ExtractRules(completion.blocks) IN
       extracted' = [status |-> IF r.raised THEN "raised" ELSE "returned",
                     rules |-> r.rules,
                     content |-> StripCodeFence(FirstBlockText(completion.blocks))]
    /\ UNCHANGED <<completion, batchVars, keyVars, ctorVars, textVars, httpVars, threadVars, storeVars, lifeVars>>

NextFn == ExtractCompletion

----------------------------------------------------------------------------
(* The normalizer and the conversation formatter applied to one list of     *)
(* raw messages                                                             *)

MaxTurns == 2        \* longest list of raw messages

\* a field that the message does not have
Absent == "<absent>"

\* the dict with the given fields, leaving out the absent ones
RawMessage(role, content, display) ==
    LET f == [role |-> role, content |-> content, display |-> display]
    IN  [k \in {x \in {"role", "content", "display"} : f[x] # Absent} |-> f[k]]

RawRoles == {Absent, "user", "assistant"}
RawContents == {Absent, <<>>, <<"h", "i">>, <<" ">>}
RawDisplays == {Absent, <<>>, <<"o", "k">>}

RawMessages == {RawMessage(r, c, d) : r \in RawRoles, c \in RawContents, d \in RawDisplays}
RawMessageLists == UNION {[1..n -> RawMessages] : n \in 0..MaxTurns}

NotRun == [status |-> "none", value |-> <<>>]
Ran(v) == [status |-> "returned", value |-> v]

InitText ==
    /\ raw_messages \in RawMessageLists
    /\ mem0_messages = NotRun
    /\ conversation_text = NotRun
    /\ search_result = [x \in {} |-> <<>>]
    /\ mem0_context = NotRun
    /\ full_prompt = NotRun

\* _transform_messages_for_mem0(messages)
Normalize ==
    /\ mem0_messages.status = "none"
    /\ mem0_messages' = Ran(TransformMessagesForMem0(raw_messages))
    /\ UNCHANGED <<raw_messages, conversation_text, search_result, mem0_context, full_prompt,
                   batchVars, keyVars, ctorVars, fnVars, httpVars, threadVars, storeVars, lifeVars>>

\* _format_conversation(messages)
RenderConversation ==
    /\ conversation_text.status = "none"
    /\ conversation_text' = Ran(FormatConversation(raw_messages))
    /\ UNCHANGED <<raw_messages, mem0_messages, search_result, mem0_context, full_prompt,
                   batchVars, keyVars, ctorVars, fnVars, httpVars, threadVars, storeVars, lifeVars>>

NextText ==
    \/ Normalize
    \/ RenderConversation

----------------------------------------------------------------------------
(* The memory formatter applied to one search result                        *)

MaxResults == 3      \* most entries of a "results" list

\* entries of a "results" list: with a memory text, with an empty one, and
\* without the "memory" field
ResultEntries ==
    {[memory |-> <<"m", "1">>], [memory |-> <<"m", "2">>], [memory |-> <<>>],
     [score |-> <<"1">>]}

SearchResults ==
    {[x \in {} |-> <<>>], [relations |-> <<>>]}
    \cup {[results |-> rs] : rs \in UNION {[1..n -> ResultEntries] : n \in 0..MaxResults}}

InitMemories ==
    /\ search_result \in SearchResults
    /\ mem0_context = NotRun
    /\ full_prompt = NotRun
    /\ raw_messages = <<>>
    /\ mem0_messages = NotRun
    /\ conversation_text = NotRun

\* _format_memories(similar_memories)
RenderMemories ==
    /\ mem0_context.status = "none"
    /\ mem0_context' = Ran(FormatMemories(search_result))
    /\ UNCHANGED <<search_result, raw_messages, mem0_messages, conversation_text, full_prompt,
                   batchVars, keyVars, ctorVars, fnVars, httpVars, threadVars, storeVars, lifeVars>>

NextMemories == RenderMemories

\* Prompt assembly on conversations and memories that contain the placeholder
\* tokens themselves
MaxPromptParts == 2

PromptContents ==
    {<<"h", "i">>, <<"{mem0_context}">>, <<"{conversation_text}">>,
     <<"a", "{mem0_context}", "b">>}

PromptMessages == {[role |-> r, content |-> c] : r \in {"user", "assistant"}, c \in PromptContents}

PromptMessageLists == UNION {[1..n -> PromptMessages] : n \in 0..MaxPromptParts}

PromptMemories ==
    {[memory |-> <<"m", "1">>], [memory |-> <<"{conversation_text}">>],
     [memory |-> <<"see", "{mem0_context}">>]}

PromptSearchResults ==
    {[x \in {} |-> <<>>]}
    \cup {[results |-> rs] : rs \in UNION {[1..n -> PromptMemories] : n \in 0..MaxPromptParts}}

InitPrompt ==
    /\ raw_messages \in PromptMessageLists
    /\ search_result \in PromptSearchResults
    /\ mem0_messages = NotRun
    /\ conversation_text = NotRun
    /\ mem0_context = NotRun
    /\ full_prompt = NotRun

\* lines 213-228: both texts are rendered and put into the template
AssemblePrompt ==
    /\ full_prompt.status = "none"
    /\ conversation_text' = Ran(FormatConversation(raw_messages))
    /\ mem0_context' = Ran(FormatMemories(search_result))
    /\ full_prompt' = Ran(FullPrompt(raw_messages, search_result))
    /\ UNCHANGED <<raw_messages, mem0_messages, search_result,
                   batchVars, keyVars, ctorVars, fnVars, httpVars, threadVars, storeVars, lifeVars>>

NextPrompt == AssemblePrompt

----------------------------------------------------------------------------
(* The endpoint extract_rules (main.py, lines 101-184)                      *)

\* what the table may hold for an id: no row, or a row with its messages
StoredMessages == {<<>>, <<MsgUser>>}
Tables == UNION {[D -> StoredMessages] : D \in SUBSET Ids}

\* _fetch_chat_histories (lines 172-184): the ids that have a row
FetchChatHistories(ids, table) ==
    [x \in {ids[i] : i \in 1..Len(ids)} \cap DOMAIN table |-> table[x]]

\* exceptions: HTTPException(status_code, detail) and any other Exception
HTTPException(code, detail) == [type |-> "HTTPException", status_code |-> code, detail |-> detail]
OtherException(msg) == [type |-> "Exception", status_code |-> 0, detail |-> msg]
NoException == [type |-> "none", status_code |-> 0, detail |-> <<>>]

\* HTTPException derives from Exception, so `except Exception` catches both
IsException(e) == e.type \in {"Exception", "HTTPException"}

\* str(e): starlette renders an HTTPException as "<status_code>: <detail>"
Str(e) ==
    IF e.type = "HTTPException" THEN <<ToString(e.status_code), ": ">> \o e.detail
    ELSE e.detail

NotFoundDetail == <<"No chat histories found with provided IDs">>

NoResponse == [status_code |-> 0, detail |-> <<>>, chat_histories_processed |-> 0]
NotFetched == [status |-> "none", value |-> [x \in {} |-> <<>>]]

\* the number of results of the batch: one per listed id with messages
RECURSIVE Processed(_, _)
Processed(ids, mbi) ==
    IF ids = <<>> THEN 0
    ELSE (IF Get(mbi, Head(ids), <<>>) # <<>> THEN 1 ELSE 0) + Processed(Tail(ids), mbi)

InitHttp ==
    /\ req_ids \in IdSeqs
    /\ chat_histories \in Tables
    /\ http_pc = "received"
    /\ fetched = NotFetched
    /\ raised_exc = NoException
    /\ batch_called = FALSE
    /\ response = NoResponse

\* line 122: the histories are fetched, or the datastore raises
HttpFetch ==
    /\ http_pc = "received"
    /\ \/ /\ fetched' = [status |-> "ok", value |-> FetchChatHistories(req_ids, chat_histories)]
          /\ http_pc' = "fetched"
          /\ UNCHANGED raised_exc
       \/ /\ fetched' = [status |-> "exc", value |-> [x \in {} |-> <<>>]]
          /\ raised_exc' = OtherException(<<"datastore">>)
          /\ http_pc' = "except"
    /\ UNCHANGED <<req_ids, chat_histories, batch_called, response,
                   batchVars, keyVars, ctorVars, fnVars, textVars, threadVars, storeVars, lifeVars>>

\* lines 124-127: nothing was found; the 404 is raised inside the try block
HttpRaiseNotFound ==
    /\ http_pc = "fetched"
    /\ DOMAIN fetched.value = {}
    /\ raised_exc' = HTTPException(404, NotFoundDetail)
    /\ http_pc' = "except"
    /\ UNCHANGED <<req_ids, chat_histories, fetched, batch_called, response,
                   batchVars, keyVars, ctorVars, fnVars, textVars, threadVars, storeVars, lifeVars>>

\* lines 130-134: the batch is run; it returns its results or raises
HttpBatch ==
    /\ http_pc = "fetched"
    /\ DOMAIN fetched.value # {}
    /\ batch_called' = TRUE
    /\ \/ /\ http_pc' = "batched"
          /\ UNCHANGED raised_exc
       \/ /\ raised_exc' = OtherException(<<"batch">>)
          /\ http_pc' = "except"
    /\ UNCHANGED <<req_ids, chat_histories, fetched, response,
                   batchVars, keyVars, ctorVars, fnVars, textVars, threadVars, storeVars, lifeVars>>

\* lines 136-160: the response of a batch that returned
HttpReturn ==
    /\ http_pc = "batched"
    /\ response' = [status_code |-> 200, detail |-> <<>>,
                    chat_histories_processed |-> Processed(req_ids, fetched.value)]
    /\ http_pc' = "responded"
    /\ UNCHANGED <<req_ids, chat_histories, fetched, raised_exc, batch_called,
                   batchVars, keyVars, ctorVars, fnVars, textVars, threadVars, storeVars, lifeVars>>

\* lines 162-164: except Exception as e: raise HTTPException(500, ...)
HttpExcept ==
    /\ http_pc = "except"
    /\ IsException(raised_exc)
    /\ response' = [status_code |-> 500,
                    detail |-> <<"Extraction failed: ">> \o Str(raised_exc),
                    chat_histories_processed |-> 0]
    /\ http_pc' = "responded"
    /\ UNCHANGED <<req_ids, chat_histories, fetched, raised_exc, batch_called,
                   batchVars, keyVars, ctorVars, fnVars, textVars, threadVars, storeVars, lifeVars>>

NextHttp ==
    \/ HttpFetch
    \/ HttpRaiseNotFound
    \/ HttpBatch
    \/ HttpReturn
    \/ HttpExcept

----------------------------------------------------------------------------
(* Several threads calling one APIKeyManager (api_keys.py, lines 50-74 and  *)
(* 97-100).  The manager takes no lock, so the steps of get_api_key that    *)
(* touch self._cache interleave with the other threads' steps.  One         *)
(* provider and hint are used, hence one cache key.  A value read from a    *)
(* source carries the number of clear_cache calls completed when it was     *)
(* read.                                                                    *)

MaxThreadOps == 2    \* calls one thread makes

Threads == {"t1", "t2"}

TheKey == CacheKey(ProvAnthropic, NoHint)

NoLocals == [started_at |-> 0, value |-> None]
NoReturn == [status |-> "none", from_cache |-> FALSE, value |-> None, started_at |-> 0]

\* a value read from a source after n clear_cache calls
SourceRead(n) == [key |-> "db-key", read_at |-> n]

IdleThreads ==
    /\ tpc = [t \in Threads |-> "idle"]
    /\ tlocal = [t \in Threads |-> NoLocals]
    /\ tret = [t \in Threads |-> NoReturn]
    /\ tops = [t \in Threads |-> 0]
    /\ clears = 0

InitThreads ==
    /\ IdleThreads
    /\ cache = [x \in {} |-> None]
    /\ environ = [x \in {} |-> None]
    /\ db = {RowOld}
    /\ last = NoCall
    /\ fresh = {}
    /\ resolved = [q \in Pairs |-> None]
    /\ before_clear = [x \in {} |-> None]
    /\ ncalls = 0

\* what the threads leave alone
threadRest == <<environ, db, last, fresh, resolved, before_clear, ncalls,
                batchVars, ctorVars, fnVars, textVars, httpVars, storeVars, lifeVars>>

\* line 52: if cache_key in self._cache
ThreadLookup(t) ==
    /\ tpc[t] = "idle"
    /\ tops[t] < MaxThreadOps
    /\ tops' = [tops EXCEPT ![t] = @ + 1]
    /\ tlocal' = [tlocal EXCEPT ![t] = [started_at |-> clears, value |-> None]]
    /\ tpc' = [tpc EXCEPT ![t] = IF CacheHit(cache, TheKey) THEN "hit" ELSE "miss"]
    /\ UNCHANGED <<cache, tret, clears>>
    /\ UNCHANGED threadRest

\* line 53: return self._cache[cache_key]; KeyError if the entry is gone
ThreadReturnCached(t) ==
    /\ tpc[t] = "hit"
    /\ tret' = [tret EXCEPT ![t] =
                  IF TheKey \in DOMAIN cache
                  THEN [status |-> "returned", from_cache |-> TRUE, value |-> cache[TheKey],
                        started_at |-> tlocal[t].started_at]
                  ELSE [status |-> "KeyError", from_cache |-> FALSE, value |-> None,
                        started_at |-> tlocal[t].started_at]]
    /\ tpc' = [tpc EXCEPT ![t] = "idle"]
    /\ tlocal' = [tlocal EXCEPT ![t] = NoLocals]
    /\ UNCHANGED <<cache, tops, clears>>
    /\ UNCHANGED threadRest

\* lines 56-58 and 64-71: the value is read from the environment or the datastore
ThreadReadSource(t) ==
    /\ tpc[t] = "miss"
    /\ tlocal' = [tlocal EXCEPT ![t].value = SourceRead(clears)]
    /\ tpc' = [tpc EXCEPT ![t] = "read"]
    /\ UNCHANGED <<cache, tret, tops, clears>>
    /\ UNCHANGED threadRest

\* lines 60-61 and 73-74: self._cache[cache_key] = value; return value
ThreadInsert(t) ==
    /\ tpc[t] = "read"
    /\ cache' = CachePut(cache, TheKey, tlocal[t].value)
    /\ tret' = [tret EXCEPT ![t] =
                  [status |-> "returned", from_cache |-> FALSE, value |-> tlocal[t].value,
                   started_at |-> tlocal[t].started_at]]
    /\ tpc' = [tpc EXCEPT ![t] = "idle"]
    /\ tlocal' = [tlocal EXCEPT ![t] = NoLocals]
    /\ UNCHANGED <<tops, clears>>
    /\ UNCHANGED threadRest

\* lines 97-100: clear_cache, a single dict.clear()
ThreadClearCache(t) ==
    /\ tpc[t] = "idle"
    /\ tops[t] < MaxThreadOps
    /\ tops' = [tops EXCEPT ![t] = @ + 1]
    /\ cache' = ClearedCache(cache)
    /\ clears' = clears + 1
    /\ UNCHANGED <<tpc, tlocal, tret>>
    /\ UNCHANGED threadRest

ThreadStep(t) ==
    \/ ThreadLookup(t)
    \/ ThreadReturnCached(t)
    \/ ThreadReadSource(t)
    \/ ThreadInsert(t)
    \/ ThreadClearCache(t)

NextThreads == \E t \in Threads : ThreadStep(t)

----------------------------------------------------------------------------
(* _store_extracted_rules (main.py, lines 187-225)                          *)

MaxRules == 3        \* longest list of rule candidates

\* rule candidates as the model returns them; the last lacks "category"
RuleA == [rule_text |-> "use-tabs", category |-> "style", confidence |-> 9]
RuleB == [rule_text |-> "run-tests", category |-> "workflow", confidence |-> 5]
RuleNoCategory == [rule_text |-> "no-category", confidence |-> 5]
RuleCandidates == {RuleA, RuleB, RuleNoCategory}
RuleLists == UNION {[1..n -> RuleCandidates] : n \in 0..MaxRules}

\* rule["rule_text"], rule["category"], rule["confidence"] all exist (lines 196-198)
HasRuleFields(rule) == {"rule_text", "category", "confidence"} \subseteq DOMAIN rule

\* rule_data (lines 195-202) as the row the insert returns, with its id
RuleRow(rule, id) ==
    [id |-> id, rule_text |-> rule["rule_text"], rule_category |-> rule["category"],
     confidence_score |-> rule["confidence"]]

\* approval_data (lines 210-215)
ApprovalData(rule_id) ==
    [rule_id |-> rule_id, status |-> "pending", required_approvals |-> 1,
     current_approvals |-> 0]

InitStore ==
    /\ rules_in \in RuleLists
    /\ store_i = 1
    /\ store_pc = "loop"
    /\ extracted_rules = <<>>
    /\ rule_approvals = <<>>
    /\ store_log = <<>>

IdleLife == invocations = 0

IdleStore ==
    /\ rules_in = <<>>
    /\ store_i = 1
    /\ store_pc = "idle"
    /\ extracted_rules = <<>>
    /\ rule_approvals = <<>>
    /\ store_log = <<>>

\* what one loop body leaves alone besides the tables
storeRest == <<batchVars, keyVars, ctorVars, fnVars, textVars, httpVars, threadVars, lifeVars>>

\* lines 195-202: building rule_data raises KeyError, caught at line 222
StoreRuleInvalid ==
    /\ store_pc = "loop"
    /\ store_i <= Len(rules_in)
    /\ ~HasRuleFields(rules_in[store_i])
    /\ store_log' = Append(store_log, "key_error")
    /\ store_i' = store_i + 1
    /\ UNCHANGED <<rules_in, store_pc, extracted_rules, rule_approvals>>
    /\ UNCHANGED storeRest

\* lines 204-207: the insert returned the new row
StoreInsertReturn ==
    /\ store_pc = "loop"
    /\ store_i <= Len(rules_in)
    /\ HasRuleFields(rules_in[store_i])
    /\ extracted_rules' = Append(extracted_rules,
                                 RuleRow(rules_in[store_i], Len(extracted_rules) + 1))
    /\ store_pc' = "approve"
    /\ UNCHANGED <<rules_in, store_i, rule_approvals, store_log>>
    /\ UNCHANGED storeRest

\* line 206: the insert returned no data; nothing more is done for the rule
StoreInsertNoData ==
    /\ store_pc = "loop"
    /\ store_i <= Len(rules_in)
    /\ HasRuleFields(rules_in[store_i])
    /\ store_log' = Append(store_log, "no_data")
    /\ store_i' = store_i + 1
    /\ UNCHANGED <<rules_in, store_pc, extracted_rules, rule_approvals>>
    /\ UNCHANGED storeRest

\* variant: a failing insert ends the whole storage
StoreInsertRaiseAborts ==
    /\ store_pc = "loop"
    /\ store_i <= Len(rules_in)
    /\ HasRuleFields(rules_in[store_i])
    /\ store_log' = Append(store_log, "insert_failed")
    /\ store_pc' = "done"
    /\ UNCHANGED <<rules_in, store_i, extracted_rules, rule_approvals>>
    /\ UNCHANGED storeRest

\* lines 204, 222-223: the insert raised; the failure is logged
StoreInsertRaise ==
    /\ store_pc = "loop"
    /\ store_i <= Len(rules_in)
    /\ HasRuleFields(rules_in[store_i])
    /\ store_log' = Append(store_log, "insert_failed")
    /\ store_i' = store_i + 1
    /\ UNCHANGED <<rules_in, store_pc, extracted_rules, rule_approvals>>
    /\ UNCHANGED storeRest

\* lines 208-218: the approval record of the rule just inserted
StoreApproveReturn ==
    /\ store_pc = "approve"
    /\ rule_approvals' = Append(rule_approvals,
                                ApprovalData(extracted_rules[Len(extracted_rules)].id))
    /\ store_log' = Append(store_log, "stored")
    /\ store_i' = store_i + 1
    /\ store_pc' = "loop"
    /\ UNCHANGED <<rules_in, extracted_rules>>
    /\ UNCHANGED storeRest

\* lines 218, 222-223: the approval insert raised; the failure is logged
StoreApproveRaise ==
    /\ store_pc = "approve"
    /\ store_log' = Append(store_log, "approval_failed")
    /\ store_i' = store_i + 1
    /\ store_pc' = "loop"
    /\ UNCHANGED <<rules_in, extracted_rules, rule_approvals>>
    /\ UNCHANGED storeRest

\* line 225: the loop is over
StoreDone ==
    /\ store_pc = "loop"
    /\ store_i > Len(rules_in)
    /\ store_pc' = "done"
    /\ UNCHANGED <<rules_in, store_i, extracted_rules, rule_approvals, store_log>>
    /\ UNCHANGED storeRest

NextStore ==
    \/ StoreRuleInvalid
    \/ StoreInsertReturn
    \/ StoreInsertNoData
    \/ StoreInsertRaise
    \/ StoreApproveReturn
    \/ StoreApproveRaise
    \/ StoreDone

----------------------------------------------------------------------------
(* Specifications                                                           *)

IdleBatch ==
    /\ memory = FALSE
    /\ chat_history_ids = <<>>
    /\ messages_by_id = [x \in {} |-> <<>>]
    /\ pc = "idle"
    /\ idx = 1
    /\ results = <<>>
    /\ similar_memories = [results |-> <<>>]
    /\ request = NoRequest
    /\ responses = <<>>
    /\ inflight = {}
    /\ trace = <<>>

IdleCtor ==
    /\ settings = [anthropic_api_key |-> None, openai_api_key |-> None,
                   mem0_api_key |-> None, mem0_mode |-> "self-hosted"]
    /\ processor = NotConstructed
    /\ listed = NotListed

IdleFn ==
    /\ completion = [wrap |-> "noblocks", core |-> <<>>, blocks |-> <<>>]
    /\ extracted = Pending

IdleText ==
    /\ raw_messages = <<>>
    /\ mem0_messages = NotRun
    /\ conversation_text = NotRun
    /\ search_result = [x \in {} |-> <<>>]
    /\ mem0_context = NotRun
    /\ full_prompt = NotRun

IdleHttp ==
    /\ req_ids = <<>>
    /\ chat_histories = [x \in {} |-> <<>>]
    /\ http_pc = "idle"
    /\ fetched = NotFetched
    /\ raised_exc = NoException
    /\ batch_called = FALSE
    /\ response = NoResponse

\* one batch on a constructed processor
----------------------------------------------------------------------------
(* One processor object: construction, then batches on it                   *)

MaxBatches == 2      \* batch_process_histories calls on one processor
MaxBatchLen == 2     \* ids in one of these batches

\* settings that leave the language-model key to the credential resolver
PipelineSettings ==
    {s \in SettingsSet : /\ s.anthropic_api_key = None
                         /\ s.mem0_api_key = None
                         /\ s.mem0_mode = "self-hosted"}

PipelineEnvs == {[x \in {} |-> None], [x \in {EnvAnthropic} |-> "env-1"]}

PipelineDbs == {{}, {RowOld, RowNew, RowOpenai}}

PipelineIdSeqs == UNION {[1..n -> Ids] : n \in 0..MaxBatchLen}

PipelineMessageMaps ==
    {[x \in {"a"} |-> <<MsgUser, MsgDisplay, MsgBlank>>],
     [x \in {"a", "b"} |-> IF x = "a" THEN <<MsgNoText>> ELSE <<>>]}

InitPipeline ==
    /\ settings \in PipelineSettings
    /\ environ \in PipelineEnvs
    /\ db \in PipelineDbs
    /\ processor = NotConstructed
    /\ listed = NotListed
    /\ cache = [x \in {} |-> None]
    /\ last = NoCall
    /\ fresh = {}
    /\ resolved = [q \in Pairs |-> None]
    /\ before_clear = [x \in {} |-> None]
    /\ ncalls = 0

\* batch_process_histories(chat_history_ids, messages_by_id, user_id) is
\* called on the constructed processor
InvokeBatch ==
    /\ processor.status = "constructed"
    /\ pc \in {"idle", "done", "raised"}
    /\ invocations < MaxBatches
    /\ invocations' = invocations + 1
    /\ chat_history_ids' \in PipelineIdSeqs
    /\ messages_by_id' \in PipelineMessageMaps
    /\ memory' = (processor.memory # "None")
    /\ pc' = "start"
    /\ idx' = 1
    /\ results' = <<>>
    /\ similar_memories' = [results |-> <<>>]
    /\ request' = NoRequest
    /\ responses' = <<>>
    /\ inflight' = {}
    /\ trace' = <<>>
    /\ UNCHANGED <<keyVars, ctorVars, fnVars, textVars, httpVars, threadVars, storeVars>>

NextPipeline ==
    \/ Construct
    \/ InvokeBatch
    \/ NextBatch

Init == InitBatch /\ IdleKeys /\ IdleCtor /\ IdleFn /\ IdleText /\ IdleHttp /\ IdleThreads /\ IdleStore /\ IdleLife
Next == NextBatch
Spec == Init /\ [][Next]_vars

\* an external call that was issued returns or raises
ExternalAnswer ==
    \/ GetAllReturn
    \/ AddRaise
    \/ AddReturn
    \/ SearchRaise
    \/ SearchReturn
    \/ CompletionRaise
    \/ CompletionReturn

\* a step of the batch's own code, between two external calls
LocalStep ==
    \/ BatchBeginNoMemory
    \/ BatchBeginGetAll
    \/ LoopSkip
    \/ ProcessWithMemory
    \/ ProcessNoMemory
    \/ AssembleAndCall
    \/ BatchReturn

\* the control points at which the batch's own code is about to run; by the
\* guards of the actions these are the states in which LocalStep is enabled
AtLocalStep == pc \in {"start", "loop", "extract"}

\* the same batch under two assumptions: every external call issued
\* eventually returns or raises (weak fairness of ExternalAnswer), and the
\* interpreter keeps executing the batch's own code (weak fairness of
\* LocalStep, with its enabling condition written out as AtLocalStep)
FairSpec ==
    /\ Init
    /\ [][Next]_vars
    /\ WF_vars(ExternalAnswer)
    /\ ([]<>~AtLocalStep \/ []<><<LocalStep>>_vars)

\* the credential resolver under arbitrary calls and changing sources
InitKeysOnly == InitKeys /\ IdleBatch /\ IdleCtor /\ IdleFn /\ IdleText /\ IdleHttp /\ IdleThreads /\ IdleStore /\ IdleLife
SpecKeys == InitKeysOnly /\ [][NextKeys]_vars


\* the construction of a processor from settings, environment and datastore
InitCtorOnly == InitCtor /\ IdleBatch /\ IdleFn /\ IdleText /\ IdleHttp /\ IdleThreads /\ IdleStore /\ IdleLife
SpecCtor == InitCtorOnly /\ [][NextCtor]_vars

\* the extraction caller on one completion response
InitFnOnly == InitFn /\ IdleBatch /\ IdleKeys /\ IdleCtor /\ IdleText /\ IdleHttp /\ IdleThreads /\ IdleStore /\ IdleLife
SpecExtract == InitFnOnly /\ [][NextFn]_vars

\* the normalizer and the conversation formatter on one list of raw messages
InitTextOnly == InitText /\ IdleBatch /\ IdleKeys /\ IdleCtor /\ IdleFn /\ IdleHttp /\ IdleThreads /\ IdleStore /\ IdleLife
SpecNormalize == InitTextOnly /\ [][NextText]_vars

\* the memory formatter on one search result
InitMemoriesOnly == InitMemories /\ IdleBatch /\ IdleKeys /\ IdleCtor /\ IdleFn /\ IdleHttp /\ IdleThreads /\ IdleStore /\ IdleLife
SpecMemories == InitMemoriesOnly /\ [][NextMemories]_vars

InitPromptOnly == InitPrompt /\ IdleBatch /\ IdleKeys /\ IdleCtor /\ IdleFn /\ IdleHttp /\ IdleThreads /\ IdleStore /\ IdleLife

SpecPrompt == InitPromptOnly /\ [][NextPrompt]_vars

\* threads sharing one credential resolver
InitThreadsOnly == InitThreads /\ IdleBatch /\ IdleCtor /\ IdleFn /\ IdleText /\ IdleHttp /\ IdleStore /\ IdleLife
SpecThreads == InitThreadsOnly /\ [][NextThreads]_vars

\* the storage of the rules of one request
InitStoreOnly == InitStore /\ IdleBatch /\ IdleKeys /\ IdleCtor /\ IdleFn /\ IdleText /\ IdleHttp /\ IdleThreads /\ IdleLife
SpecStore == InitStoreOnly /\ [][NextStore]_vars

\* one request to the endpoint extract_rules
InitHttpOnly == InitHttp /\ IdleBatch /\ IdleKeys /\ IdleCtor /\ IdleFn /\ IdleText /\ IdleThreads /\ IdleStore /\ IdleLife
SpecHttp == InitHttpOnly /\ [][NextHttp]_vars

----------------------------------------------------------------------------
(* Properties of a batch                                                    *)

\* the i-th listed id has no turns: its key is missing or its list is empty
NoTurns(i) ==
    \/ chat_history_ids[i] \notin DOMAIN messages_by_id
    \/ messages_by_id[chat_history_ids[i]] = <<>>

\* the ids among the first n listed that have turns, in order
RECURSIVE ProcessedIds(_)
ProcessedIds(n) ==
    IF n = 0 THEN <<>>
    ELSE IF NoTurns(n) THEN ProcessedIds(n - 1)
    ELSE Append(ProcessedIds(n - 1), chat_history_ids[n])

ResultIds == [k \in 1..Len(results) |-> results[k].chat_history_id]

\* the events of the i-th listed id, and their names
EventsOf(i) == SelectSeq(trace, LAMBDA e : e.i = i)
StagesOf(i) == LET es == EventsOf(i) IN [k \in 1..Len(es) |-> es[k].ev]

\* the "result" events, one per appended result
ResultEvents == SelectSeq(trace, LAMBDA e : e.ev = "result")

CallEvents == {"get_all", "add", "search", "completion"}
MemoryEvents == {"get_all", "get_all_ret", "get_all_exc", "normalize", "add",
                 "add_ret", "add_exc", "search", "search_ret", "search_exc"}
ExternalFailures == {"add_exc", "search_exc", "completion_exc"}

IsPrefix(p, s) == Len(p) <= Len(s) /\ SubSeq(s, 1, Len(p)) = p

\* C1: an id whose entry in messages_by_id is missing or empty is skipped
\* entirely: the only event it ever causes is the skip itself (no stage, no
\* memory.add, memory.search or completion call, no failure), it adds nothing
\* to results, and every other id visited so far has contributed its result;
\* a batch that returns has visited every id.
C1_EmptyConversationsSkipped ==
    /\ \A k \in 1..Len(trace) :
          (trace[k].i # 0 /\ NoTurns(trace[k].i)) => trace[k].ev = "skip"
    /\ \A c \in inflight : c.i # 0 => ~NoTurns(c.i)
    /\ ResultIds = ProcessedIds(idx - 1)
    /\ pc = "done" => idx = Len(chat_history_ids) + 1

C1_Witness ==
    /\ pc = "done"
    /\ memory
    /\ Len(chat_history_ids) = 2
    /\ ~NoTurns(1)
    /\ NoTurns(2)
    /\ chat_history_ids[2] \in DOMAIN messages_by_id
    /\ Len(results) = 1

\* C2: a malformed model output (not JSON, or JSON that is not a list) yields
\* a result with an empty rules sequence for that conversation and does not
\* end the batch: no response is left without its result, the only way the
\* batch fails is an external call that raised, and a batch that returns has
\* a result for every id with turns, those after the malformed one included.
C2_MalformedOutputIsolated ==
    /\ LET re == ResultEvents IN
       \A k \in 1..Len(responses) :
          Malformed(responses[k]) =>
             /\ k <= Len(results)
             /\ results[k].rules = <<>>
             /\ results[k].chat_history_id = chat_history_ids[re[k].i]
    /\ Len(responses) = Len(results)
    /\ pc = "raised" => trace[Len(trace)].ev \in ExternalFailures
    /\ pc = "done" => ResultIds = ProcessedIds(Len(chat_history_ids))

C2_Witness ==
    /\ pc = "done"
    /\ Len(results) = 2
    /\ Malformed(responses[1])
    /\ results[1].rules = <<>>
    /\ results[2].rules # <<>>

\* C3: conversations are processed one at a time in list order: at most one
\* external call is in flight, every call event is directly followed by its
\* own return (or failure) before anything else happens, the conversation
\* index never decreases along the trace, and the results are in the order
\* of the ids they were produced for.
C3_SequentialInOrder ==
    /\ Cardinality(inflight) <= 1
    /\ \A k \in 1..Len(trace) :
          trace[k].ev \in CallEvents =>
             IF k = Len(trace)
             THEN inflight = {Call(trace[k].ev, trace[k].i)}
             ELSE /\ trace[k + 1].i = trace[k].i
                  /\ trace[k + 1].ev \in {trace[k].ev \o "_ret", trace[k].ev \o "_exc"}
    /\ \A k \in 1..Len(trace) - 1 : trace[k].i <= trace[k + 1].i
    /\ LET re == ResultEvents IN
       /\ Len(re) = Len(results)
       /\ \A k \in 1..Len(results) :
             results[k].chat_history_id = chat_history_ids[re[k].i]
       /\ \A k \in 1..Len(re) - 1 : re[k].i < re[k + 1].i

C3_Witness ==
    /\ pc = "done"
    /\ memory
    /\ Len(results) = 2
    /\ results[1].chat_history_id # results[2].chat_history_id

\* C6: with the gateway disabled no memory operation (get_all, add, search,
\* nor the normalisation feeding add) ever happens, and every result has
\* similar_memory_count 0.
C6_DisabledGatewayNeverCalled ==
    ~memory =>
       /\ \A k \in 1..Len(trace) : trace[k].ev \notin MemoryEvents
       /\ \A c \in inflight : c.op = "completion"
       /\ \A k \in 1..Len(results) : results[k].similar_memory_count = 0

C6_Witness ==
    /\ ~memory
    /\ pc = "done"
    /\ Len(results) = 2

\* the number of hits memory.search reported for the i-th listed id, 0 when
\* no search returned for it
SearchHitsOf(i) ==
    LET evs == SelectSeq(trace, LAMBDA e : e.ev = "search_ret" /\ e.i = i)
    IN  IF evs = <<>> THEN 0 ELSE evs[1].n

\* the memory lines rendered into a prompt (every memory text starts with "m")
MemoryLinesIn(prompt) == Len(SelectSeq(prompt, LAMBDA t : t = "m"))

\* C7: similar_memory_count of every result equals the number of results
\* memory.search returned for that conversation, which is also the number of
\* memory lines rendered into that conversation's prompt; it is 0 with the
\* gateway disabled.
C7_SimilarMemoryCount ==
    /\ LET re == ResultEvents IN
       \A k \in 1..Len(results) :
          /\ results[k].similar_memory_count = SearchHitsOf(re[k].i)
          /\ ~memory => results[k].similar_memory_count = 0
    /\ pc = "llm" => MemoryLinesIn(request.arg) = SearchHitsOf(idx)

C7_Witness ==
    /\ pc = "done"
    /\ Len(results) = 2
    /\ results[1].similar_memory_count = 0
    /\ results[2].similar_memory_count > 0

----------------------------------------------------------------------------
(* Properties of the credential resolver                                    *)

\* C4: once get_api_key(provider, hint) has returned a value, every later
\* call with the same (provider, hint) and no clear_cache in between returns
\* that same value from the cache, without a datastore query and without an
\* environment read, whatever the sources hold by then.
C4_CachedResolutionIdempotent ==
    (last.op = "get" /\ last.prior # None) =>
       /\ last.ret = last.prior
       /\ last.from_cache
       /\ ~last.db_queried
       /\ ~last.env_read

C4_Witness ==
    /\ last.op = "get"
    /\ last.prior # None
    /\ last.hint = Hint(EnvAnthropic)
    /\ last.ret = "db-old"
    /\ last.env_now = "env-2"
    /\ RowOld \notin db

\* what the sources yield for a hint, given the value of the hinted variable
\* and the outcome of the datastore query
SourceValue(hint, env_value, dbres) ==
    IF hint.some /\ hint.s # <<>> /\ ~Falsy(env_value) THEN env_value
    ELSE IF dbres.status = "ok" /\ dbres.data # <<>> THEN dbres.data[1].api_key
    ELSE None

\* C5: the get_api_key that follows a clear_cache does not answer from the
\* cache: it reads the hinted environment variable, queries the datastore
\* when the environment yields nothing, and returns what they yield now; and
\* no entry from before the clear is left: whatever is in the cache, and
\* whatever is answered from it, was inserted after the last clear_cache.
C5_ClearForcesRequery ==
    /\ (last.op = "get" /\ last.prev = "clear") =>
          /\ ~last.from_cache
          /\ (last.hint.some /\ last.hint.s # <<>>) => last.env_read
          /\ Falsy(last.env_now) => last.db_queried
          /\ last.ret = SourceValue(last.hint, last.env_now, last.dbres)
    /\ (last.op = "get" /\ last.from_cache) => last.key \in fresh
    /\ DOMAIN cache \subseteq fresh

C5_Witness ==
    /\ last.op = "get"
    /\ last.prev = "clear"
    /\ last.key \in DOMAIN before_clear
    /\ last.ret # None
    /\ before_clear[last.key] # last.ret

----------------------------------------------------------------------------
(* Stage order of one conversation                                          *)

\* the events of a conversation that runs to its result
StagesWithMemory ==
    <<"normalize", "add", "add_ret", "search", "search_ret",
      "assemble", "completion", "completion_ret", "result">>
StagesWithoutMemory == <<"assemble", "completion", "completion_ret", "result">>
StagesWithoutMemoryClaimed == <<"normalize">> \o StagesWithoutMemory

\* st is a beginning of full, or such a beginning that ends in an external
\* call followed by the failure of that call
WellStaged(st, full) ==
    \/ IsPrefix(st, full)
    \/ /\ Len(st) >= 2
       /\ IsPrefix(DropLast(st, 1), full)
       /\ st[Len(st) - 1] \in CallEvents
       /\ st[Len(st)] = st[Len(st) - 1] \o "_exc"

----------------------------------------------------------------------------
(* Properties of the extraction caller and of the construction              *)

\* the text is JSON and the value is a list
IsJsonList(text) == JsonLoads(text).ok /\ JsonLoads(text).val.t = "list"

\* C9: the extraction caller never raises on the model's output: whatever
\* the response, it returns; for a response without content blocks, or one
\* whose text (inside any wrapping) is not JSON or is JSON but not a list,
\* it returns the empty sequence.
C9_ExtractionNeverRaises ==
    extracted.status # "pending" =>
       /\ extracted.status = "returned"
       /\ completion.blocks = <<>> => extracted.rules = <<>>
       /\ ~IsJsonList(completion.core) => extracted.rules = <<>>

C9_Witness ==
    /\ extracted.status = "returned"
    /\ completion.wrap = "json"
    /\ completion.core = <<"{", "}">>
    /\ extracted.rules = <<>>

\* neither the settings, nor the environment, nor the datastore yields a
\* language-model key
AnthropicAbsent ==
    /\ Falsy(settings.anthropic_api_key)
    /\ Falsy(Getenv(environ, EnvAnthropic))
    /\ \/ processor.seen.anthropic.status # "ok"
       \/ processor.seen.anthropic.data = <<>>

\* C10: when the language-model key is absent from the settings, the
\* environment and the datastore, the construction fails with a
\* configuration error and yields no processor; a processor that was
\* constructed holds a non-empty language-model key, so the failure is never
\* left to the first extraction call.
C10_MissingKeyFailsConstruction ==
    processor.status # "none" =>
       /\ AnthropicAbsent =>
             /\ processor.status = "ValueError"
             /\ processor.memory = "None"
             /\ processor.anthropic_key = None
       /\ processor.status = "constructed" => ~Falsy(processor.anthropic_key)

C10_Witness ==
    /\ processor.status = "ValueError"
    /\ processor.message = "ANTHROPIC_API_KEY required"
    /\ AnthropicAbsent
    /\ settings.mem0_mode = "self-hosted"
    /\ settings.openai_api_key = "cfg-openai"
    /\ processor.seen.anthropic.status = "exc"

\* neither the settings, nor the environment, nor the datastore yields an
\* embedding key
OpenaiAbsent ==
    /\ Falsy(settings.openai_api_key)
    /\ Falsy(Getenv(environ, EnvOpenai))
    /\ \/ processor.seen.openai.status # "ok"
       \/ processor.seen.openai.data = <<>>

\* neither the settings, nor the environment, nor the datastore yields a key
\* of the memory platform
Mem0Absent ==
    /\ Falsy(settings.mem0_api_key)
    /\ Falsy(Getenv(environ, EnvMem0))
    /\ \/ processor.seen.mem0.status # "ok"
       \/ processor.seen.mem0.data = <<>>

\* get_all_memories, if it was called, returned the empty list without
\* reaching the gateway
ListedNothing ==
    listed.status # "none" =>
       /\ listed.status = "returned"
       /\ listed.ret = <<>>
       /\ ~listed.invoked

\* C11 as stated: in every mode, with the embedding key absent and the
\* language-model key present, the construction succeeds with the gateway
\* disabled and get_all_memories is an empty return.
C11_AnyModeAsClaimed ==
    (processor.status # "none" /\ OpenaiAbsent /\ ~AnthropicAbsent) =>
       /\ processor.status = "constructed"
       /\ processor.memory = "None"
       /\ ListedNothing

\* C11: in self-hosted mode, with the embedding key absent and the
\* language-model key present, the construction succeeds with the gateway
\* disabled, and get_all_memories returns the empty list without reaching the
\* gateway.  In platform mode the embedding key plays no part: with the
\* language-model key present the construction fails when the key of the
\* memory platform is absent and yields an enabled gateway when it is there.
C11_SelfHostedDisabledWithoutEmbeddingKey ==
    (processor.status # "none" /\ ~AnthropicAbsent) =>
       /\ (settings.mem0_mode = "self-hosted" /\ OpenaiAbsent) =>
             /\ processor.status = "constructed"
             /\ processor.memory = "None"
             /\ ListedNothing
       /\ (settings.mem0_mode = "platform" /\ Mem0Absent) =>
             /\ processor.status = "ValueError"
             /\ processor.message = "MEM0_API_KEY required"
       /\ (settings.mem0_mode = "platform" /\ ~Mem0Absent) =>
             /\ processor.status = "constructed"
             /\ processor.memory = "MemoryClient"

C11_Witness ==
    /\ processor.status = "constructed"
    /\ settings.mem0_mode = "self-hosted"
    /\ OpenaiAbsent
    /\ processor.seen.openai.status = "exc"
    /\ processor.memory = "None"
    /\ listed.status = "returned"
    /\ listed.ret = <<>>
    /\ ~listed.invoked

----------------------------------------------------------------------------
(* Sources of a credential and failures of the datastore                    *)

\* C12: on a cache miss the sources are consulted in a fixed order: with a
\* hint whose environment variable holds a non-empty value, that value is
\* cached and returned and the datastore is not queried; without a hint, or
\* with the variable unset or empty, the datastore is queried and the value
\* of its row, if there is one, is cached and returned.
C12_EnvironmentBeforeDatastore ==
    (last.op = "get" /\ ~last.from_cache) =>
       IF last.hint.some /\ last.env_now \notin {None, ""}
       THEN /\ last.ret = last.env_now
            /\ last.stored = last.env_now
            /\ ~last.db_queried
            /\ last.dbres = NotQueried
       ELSE /\ last.db_queried
            /\ last.dbres # NotQueried
            /\ (last.dbres.status = "ok" /\ last.dbres.data # <<>>) =>
                  /\ last.ret = last.dbres.data[1].api_key
                  /\ last.stored = last.ret
            /\ (last.dbres.status # "ok" \/ last.dbres.data = <<>>) => last.ret = None

C12_Witness ==
    /\ last.op = "get"
    /\ ~last.from_cache
    /\ last.hint = Hint(EnvAnthropic)
    /\ last.env_now = ""
    /\ last.db_queried
    /\ last.ret = "db-default"
    /\ last.stored = "db-default"

\* C13: a failure of the datastore during a resolution is caught: the call
\* returns absent, raises nothing and leaves the cache as it was.
C13_DatastoreFailureCaught ==
    (last.op = "get" /\ last.dbres.status = "exc") =>
       /\ ~last.raised
       /\ last.ret = None
       /\ last.cache_kept
       /\ last.stored = None

C13_Witness ==
    /\ last.op = "get"
    /\ last.dbres.status = "exc"
    /\ last.prev = "get"
    /\ ~last.raised
    /\ last.ret = None
    /\ last.cache_kept
    /\ cache # [x \in {} |-> None]

----------------------------------------------------------------------------
(* Failures of the memory gateway                                           *)

MemoryFailures == {"add_exc", "search_exc"}

\* C14: a failure of memory.add or memory.search is not caught: it is the
\* last thing the batch does.  The batch ends raised at that conversation
\* with no call left in flight, returns no result list, the failing
\* conversation has no result, and no later conversation is visited.
C14_MemoryFailureAbortsBatch ==
    \A k \in 1..Len(trace) :
       trace[k].ev \in MemoryFailures =>
          /\ memory
          /\ k = Len(trace)
          /\ pc = "raised"
          /\ inflight = {}
          /\ idx = trace[k].i
          /\ \A j \in 1..Len(trace) : trace[j].i <= idx
          /\ \A j \in 1..Len(trace) : trace[j].ev = "result" => trace[j].i < idx
          /\ Len(results) < idx

C14_Witness ==
    /\ pc = "raised"
    /\ trace[Len(trace)] = Ev("search_exc", 1)
    /\ Len(chat_history_ids) = 2
    /\ ~NoTurns(2)
    /\ results = <<>>

\* C15: a failure of memory.get_all is caught inside get_all_memories, which
\* then yields the empty list; the failure of the listing that precedes the
\* batch never ends the batch: every conversation is visited and processed
\* as after a listing that succeeded, and a batch that ends raised does so
\* at a later external call.
C15_ListingFailureCaught ==
    (Len(trace) >= 2 /\ trace[2].ev = "get_all_exc") =>
       /\ trace[1].ev = "get_all"
       /\ trace[2].n = 0
       /\ pc \notin {"start", "get_all"}
       /\ pc = "raised" => (Len(trace) > 2 /\ trace[Len(trace)].ev \in ExternalFailures)
       /\ \A k \in 3..Len(trace) : trace[k].ev \notin {"get_all", "get_all_ret", "get_all_exc"}
       /\ ResultIds = ProcessedIds(idx - 1)
       /\ pc = "done" => idx = Len(chat_history_ids) + 1

C15_Witness ==
    /\ Len(trace) >= 2
    /\ trace[2].ev = "get_all_exc"
    /\ pc = "done"
    /\ Len(results) = 2

----------------------------------------------------------------------------
(* Properties of the normalizer                                             *)

\* the text a raw message resolves to: its content if that is non-empty,
\* else its display text if that is non-empty, else nothing
TextOf(m) ==
    IF "content" \in DOMAIN m /\ m["content"] # <<>> THEN m["content"]
    ELSE IF "display" \in DOMAIN m /\ m["display"] # <<>> THEN m["display"]
    ELSE <<>>

\* the positions of the raw messages that resolve to some text
Kept == {i \in 1..Len(raw_messages) : TextOf(raw_messages[i]) # <<>>}

\* the position in the output of the kept raw message i
Rank(i) == Cardinality({j \in Kept : j <= i})

\* C16: normalization keeps exactly the raw turns that resolve to a
\* non-empty text (the content if non-empty, else the display text), one
\* output turn per kept raw turn carrying that text, in the original
\* relative order and without removing duplicates; turns whose content and
\* display are both empty or absent are dropped.
C16_NormalizationKeepsResolvedTurns ==
    mem0_messages.status = "returned" =>
       /\ Len(mem0_messages.value) = Cardinality(Kept)
       /\ \A i \in Kept :
             mem0_messages.value[Rank(i)].content = TextOf(raw_messages[i])

C16_Witness ==
    /\ mem0_messages.status = "returned"
    /\ Len(raw_messages) = 2
    /\ raw_messages[1] = RawMessage("user", <<>>, <<"o", "k">>)
    /\ raw_messages[2] = raw_messages[1]
    /\ Len(mem0_messages.value) = 2
    /\ mem0_messages.value[1].content = <<"o", "k">>

\* the number of turns rendered in a prompt: every rendered turn has its own
\* ":" after the role, and no other text of the model holds that token
RECURSIVE Count(_, _)
Count(s, tok) ==
    IF s = <<>> THEN 0
    ELSE (IF Head(s) = tok THEN 1 ELSE 0) + Count(Tail(s), tok)

RenderedTurns(prompt) == Count(prompt, ":")

\* the raw turns of a conversation whose resolved text is not blank
NonBlankTurns(messages) ==
    Cardinality({i \in 1..Len(messages) : Strip(TextOf(messages[i])) # <<>>})

\* C17: a turn whose resolved text is empty after trimming is discarded
\* before any downstream stage: it is not among the turns handed to
\* memory.add, and it is not rendered in the conversation text of the prompt.
C17_BlankTurnsDiscarded ==
    /\ pc = "add" =>
          \A k \in 1..Len(request.arg) : Strip(request.arg[k].content) # <<>>
    /\ pc = "llm" =>
          RenderedTurns(request.arg) = NonBlankTurns(CurrentMessages)

----------------------------------------------------------------------------
(* Properties of the memory formatter                                       *)

\* the lines of a text: the pieces between its newline tokens
RECURSIVE SplitLines(_, _)
SplitLines(s, line) ==
    IF s = <<>> THEN <<line>>
    ELSE IF Head(s) = "\n" THEN <<line>> \o SplitLines(Tail(s), <<>>)
    ELSE SplitLines(Tail(s), Append(line, Head(s)))

\* the memory text of an entry, empty when the entry has none
MemoryText(entry) == IF "memory" \in DOMAIN entry THEN entry["memory"] ELSE <<>>

\* C18: for a search result without a "results" field, or with an empty
\* one, the formatter returns exactly the sentence "No similar memories
\* found."; for N >= 1 results (of single-line texts) its output has exactly
\* N lines, the i-th being the number i, ". " and the text of the i-th memory.
C18_MemoriesNumberedFromOne ==
    mem0_context.status = "returned" =>
       IF "results" \notin DOMAIN search_result \/ search_result["results"] = <<>>
       THEN mem0_context.value = <<"No similar memories found.">>
       ELSE LET rs == search_result["results"]
                ls == SplitLines(mem0_context.value, <<>>)
            IN  /\ Len(ls) = Len(rs)
                /\ \A i \in 1..Len(rs) :
                      ls[i] = <<ToString(i), ".", " ">> \o MemoryText(rs[i])

C18_Witness ==
    /\ mem0_context.status = "returned"
    /\ Len(Get(search_result, "results", <<>>)) = 3
    /\ search_result["results"][2] = [score |-> <<"1">>]
    /\ SplitLines(mem0_context.value, <<>>)[3] = <<"3", ".", " ", "m", "1">>

----------------------------------------------------------------------------
(* Properties of the fence stripping                                        *)

FencedWraps == {"json", "bare", "tagged"}

\* C19 as stated: a valid JSON list wrapped in a fence with any language
\* tag, or with none, parses to that list.
C19_AnyTagAsClaimed ==
    (extracted.status = "returned" /\ completion.wrap \in FencedWraps
       /\ IsJsonList(completion.core)) =>
       extracted.rules = JsonLoads(completion.core).val.v

\* C19: the response text is trimmed; an opener that is the fence followed
\* by json, or else the bare fence, is removed, then a closing fence, and
\* the text is trimmed again, so what is parsed is the trimmed text inside
\* the fence, and a JSON list in a json-tagged or untagged fence (or in no
\* fence) parses to that list.  Of a fence with another tag only the three
\* fence characters are removed: the tag stays in front of the text, which
\* is then not JSON, and the result is the empty list.
C19_JsonOrBareFenceStripped ==
    extracted.status # "pending" =>
       /\ completion.wrap \in {"json", "bare", "plain", "padded"} =>
             /\ extracted.content = Strip(completion.core)
             /\ IsJsonList(completion.core) =>
                   /\ extracted.status = "returned"
                   /\ extracted.rules = JsonLoads(completion.core).val.v
       /\ completion.wrap = "tagged" =>
             /\ extracted.content = Strip(<<"p", "y", "\n">> \o completion.core)
             /\ extracted.rules = <<>>

C19_Witness ==
    /\ extracted.status = "returned"
    /\ completion.wrap = "json"
    /\ completion.core = <<"[", "A", "]">>
    /\ extracted.content = <<"[", "A", "]">>
    /\ Len(extracted.rules) = 1

----------------------------------------------------------------------------
(* Properties of the endpoint                                               *)

\* C20: when no requested id resolves to a stored conversation, the endpoint
\* answers with the not-found condition (404), which differs from the
\* generic extraction failure (500), and it does so without having started
\* the batch.
C20_NotFoundReportedDistinctly ==
    (http_pc = "responded" /\ fetched.status = "ok" /\ DOMAIN fetched.value = {}) =>
       /\ response.status_code = 404
       /\ response.detail = NotFoundDetail
       /\ ~batch_called

----------------------------------------------------------------------------
(* The credential cache under several threads                               *)

\* C21: the cache is safe under concurrent use: a get_api_key that starts
\* after a clear_cache has returned never returns from the cache a value
\* that was read from a source before that clear.
C21_CacheSafeUnderThreads ==
    \A t \in Threads :
       (tret[t].status = "returned" /\ tret[t].from_cache) =>
          tret[t].value.read_at >= tret[t].started_at

----------------------------------------------------------------------------
(* Properties of the storage of rules                                       *)

\* the candidates visited so far whose insert returned a row, in order
InsertedCandidates ==
    LET n == Len(store_log)
        done == {i \in 1..n : store_log[i] \in {"stored", "approval_failed"}}
        cur == IF store_pc = "approve" THEN {store_i} ELSE {}
    IN  done \cup cur

ApprovalsOf(id) == {k \in 1..Len(rule_approvals) : rule_approvals[k].rule_id = id}

----------------------------------------------------------------------------
(* The row a datastore resolution returns                                   *)

\* the rows of the table, as it was when queried, that are active rows of
\* the provider asked for
ActiveRowsAsked == {r \in last.rows : r.provider = last.provider /\ r.is_active}

\* C23: a value resolved from the datastore is the api_key of an active row
\* of the provider asked for that no other such row outranks, where a row
\* with the is-default flag outranks one without, and among rows with equal
\* flag the more recently created outranks the older; inactive rows and
\* rows of other providers are never returned, and when there is no such
\* row the resolution yields absent.
C23_HighestPriorityActiveRow ==
    (last.op = "get" /\ last.db_queried /\ last.dbres.status = "ok") =>
       IF ActiveRowsAsked = {}
       THEN last.ret = None
       ELSE \E r \in ActiveRowsAsked :
               /\ last.ret = r.api_key
               /\ \A o \in ActiveRowsAsked :
                     /\ ~(o.is_default /\ ~r.is_default)
                     /\ ~(o.is_default = r.is_default /\ o.created_at > r.created_at)

C23_Witness ==
    /\ last.op = "get"
    /\ last.db_queried
    /\ last.hint = NoHint
    /\ last.rows = {RowOld, RowNew, RowDefault, RowInactive, RowOpenai}
    /\ last.provider = ProvAnthropic
    /\ last.ret = "db-default"

----------------------------------------------------------------------------
(* A failing completion call                                                *)

\* C24: a failure of the completion call for a conversation does not halt
\* the batch: the call is made once, the conversation gets a result with
\* empty rules, and the batch goes on to the later conversations.
C24_CompletionFailureDegrades ==
    \A k \in 1..Len(trace) :
       trace[k].ev = "completion_exc" =>
          /\ pc # "raised"
          /\ Cardinality({j \in 1..Len(trace) :
                            trace[j] = Ev("completion", trace[k].i)}) = 1
          /\ \E j \in 1..Len(trace) : j > k /\ trace[j] = Ev("result", trace[k].i)
          /\ \E n \in 1..Len(results) :
                /\ results[n].chat_history_id = chat_history_ids[trace[k].i]
                /\ results[n].rules = <<>>

----------------------------------------------------------------------------
(* The role of a turn that has none                                         *)

\* the rendered line of the i-th raw message: the lines are separated by a
\* blank line, and no text of the model holds a newline
RenderedLine(i) == SplitLines(conversation_text.value, <<>>)[2 * i - 1]

NoRole(i) == "role" \notin DOMAIN raw_messages[i]

\* C25 as stated: a raw turn without a role is a "user" turn both among the
\* turns for memory.add and in the rendering for the prompt, where its line
\* starts with USER.
C25_UserEverywhereAsClaimed ==
    /\ mem0_messages.status = "returned" =>
          \A i \in Kept : NoRole(i) => mem0_messages.value[Rank(i)].role = "user"
    /\ conversation_text.status = "returned" =>
          \A i \in 1..Len(raw_messages) : NoRole(i) => RenderedLine(i)[1] = "USER"

\* C25: a raw turn without a role is given the role "user" among the turns
\* for memory.add, but in the rendering for the prompt its line starts with
\* UNKNOWN; a turn with a role keeps it for memory.add and is rendered with
\* the role in upper case.
C25_UserForMemoryUnknownInPrompt ==
    /\ mem0_messages.status = "returned" =>
          \A i \in Kept :
             mem0_messages.value[Rank(i)].role =
                (IF NoRole(i) THEN "user" ELSE raw_messages[i]["role"])
    /\ conversation_text.status = "returned" =>
          \A i \in 1..Len(raw_messages) :
             /\ RenderedLine(i)[1] =
                   (IF NoRole(i) THEN "UNKNOWN"
                    ELSE IF raw_messages[i]["role"] = "user" THEN "USER" ELSE "ASSISTANT")
             /\ RenderedLine(i)[2] = ":"

C25_Witness ==
    /\ mem0_messages.status = "returned"
    /\ conversation_text.status = "returned"
    /\ raw_messages = <<RawMessage(Absent, <<"h", "i">>, Absent)>>
    /\ mem0_messages.value = <<[role |-> "user", content |-> <<"h", "i">>]>>
    /\ conversation_text.value = <<"UNKNOWN", ":", " ", "h", "i">>

----------------------------------------------------------------------------
(* The entries of the credential cache                                      *)

\* C26: the cache is keyed by the pair (provider, hint): a call is answered
\* from the cache only with the value that a call with the same pair
\* returned since the last clear_cache, never with one cached for another
\* pair.
C26_KeyedByPair ==
    (last.op = "get" /\ last.from_cache) =>
       /\ last.prior # None
       /\ last.ret = last.prior

\* C27: the cache holds an entry only for a key inserted since the last
\* clear_cache, and its value is the one a get_api_key with that key
\* returned since then; it never holds absent or an empty value.  A call
\* that is not answered from the cache consults a source; when it resolves
\* a value it inserts exactly that value under its key, and when it resolves
\* nothing it leaves the cache as it was, so absent is never answered from
\* the cache.
C27_CacheHoldsResolvedValues ==
    /\ \A k \in DOMAIN cache :
          /\ k \in fresh
          /\ cache[k] \notin {None, ""}
          /\ \E q \in Pairs : CacheKey(q[1], q[2]) = k /\ resolved[q] = cache[k]
    /\ (last.op = "get" /\ ~last.from_cache) =>
          /\ last.env_read \/ last.db_queried
          /\ last.ret # None => (last.stored = last.ret /\ ~last.cache_kept)
          /\ last.ret = None => (last.stored = None /\ last.cache_kept)
    /\ (last.op = "get" /\ last.from_cache) => last.ret \notin {None, ""}

C27_Witness ==
    /\ last.op = "get"
    /\ last.prev = "get"
    /\ ~last.from_cache
    /\ last.ret = None
    /\ last.dbres = DbData(<<>>)
    /\ Cardinality(DOMAIN cache) = 1
    /\ last.key \notin DOMAIN cache

----------------------------------------------------------------------------
(* Number of external calls of a batch                                      *)

\* how often the call `op` was issued for the i-th listed id
Issued(op, i) == Cardinality({k \in 1..Len(trace) : trace[k].ev = op /\ trace[k].i = i})

\* the i-th listed id has been processed to its result
HasResult(i) == \E k \in 1..Len(trace) : trace[k].ev = "result" /\ trace[k].i = i

\* the conversation of the i-th listed id has turns, none of which survives
\* the normalization
NormalizesToNothing(i) ==
    /\ ~NoTurns(i)
    /\ \A k \in 1..Len(messages_by_id[chat_history_ids[i]]) :
          TextOf(messages_by_id[chat_history_ids[i]][k]) = <<>>

\* C28: no call is issued twice for a conversation; a processed conversation
\* has had exactly one completion call and, with the gateway enabled, exactly
\* one memory.add followed by exactly one memory.search, also when no turn
\* survives the normalization; with the gateway disabled it has had neither;
\* a skipped id causes none of the three calls; memory.get_all is called at
\* most once, as the first thing of the batch, and only with the gateway
\* enabled.
C28_CallCounts ==
    /\ \A i \in 1..Len(chat_history_ids) :
          /\ Issued("completion", i) <= 1
          /\ Issued("add", i) <= 1
          /\ Issued("search", i) <= Issued("add", i)
          /\ NoTurns(i) =>
                Issued("completion", i) + Issued("add", i) + Issued("search", i) = 0
          /\ ~memory => Issued("add", i) = 0
          /\ HasResult(i) =>
                /\ Issued("completion", i) = 1
                /\ memory => (Issued("add", i) = 1 /\ Issued("search", i) = 1)
          /\ Issued("completion", i) = 1 => Issued("add", i) = (IF memory THEN 1 ELSE 0)
    /\ Issued("get_all", 0) <= 1
    /\ Issued("get_all", 0) = 1 => (memory /\ trace[1].ev = "get_all")
    /\ (memory /\ pc # "start") => Issued("get_all", 0) = 1
    /\ \A k \in 2..Len(trace) : trace[k].ev # "get_all"

C28_Witness ==
    /\ pc = "done"
    /\ memory
    /\ Len(chat_history_ids) = 2
    /\ NormalizesToNothing(1)
    /\ HasResult(1)
    /\ Issued("add", 1) = 1
    /\ Issued("search", 1) = 1
    /\ Issued("completion", 1) = 1
    /\ NoTurns(2)

----------------------------------------------------------------------------
(* Prompt assembly                                                          *)

\* how often the token occurs in the text
Occurrences(tok, text) == Cardinality({k \in 1..Len(text) : text[k] = tok})

\* the template before, between and after its two placeholders
TemplateHead == SubSeq(DefaultPrompt, 1, 1)
TemplateMiddle == SubSeq(DefaultPrompt, 3, 3)
TemplateTail == SubSeq(DefaultPrompt, 5, 5)

\* the conversation text with every {mem0_context} token in it replaced by
\* the memory context
ConversationWithContext ==
    Concat([k \in 1..Len(conversation_text.value) |->
               IF conversation_text.value[k] = "{mem0_context}"
               THEN mem0_context.value
               ELSE <<conversation_text.value[k]>>])

\* C29: the assembled prompt is the template with the conversation slot
\* holding the conversation text in which every literal {mem0_context} token
\* has been replaced by the memory context, and the memory slot holding the
\* memory context verbatim, a literal {conversation_text} token in it
\* included.
C29_SlotsFilledInOrder ==
    full_prompt.status = "returned" =>
        /\ full_prompt.value =
              TemplateHead \o ConversationWithContext \o TemplateMiddle
              \o mem0_context.value \o TemplateTail
        /\ Occurrences("{conversation_text}", full_prompt.value) =
              Occurrences("{conversation_text}", conversation_text.value)
              + (Occurrences("{mem0_context}", conversation_text.value) + 1)
                * Occurrences("{conversation_text}", mem0_context.value)

C29_Witness ==
    /\ full_prompt.status = "returned"
    /\ Occurrences("{mem0_context}", conversation_text.value) = 1
    /\ Occurrences("{conversation_text}", conversation_text.value) = 0
    /\ Occurrences("{conversation_text}", mem0_context.value) = 1
    /\ Occurrences("{conversation_text}", full_prompt.value) = 2
    /\ Occurrences("{mem0_context}", full_prompt.value) = 0

----------------------------------------------------------------------------
(* Shape of the result list                                                 *)

\* the positions in chat_history_ids whose id has a non-empty turn list
TurnPositions == {i \in 1..Len(chat_history_ids) : ~NoTurns(i)}

\* the k-th of them
TurnPosition(k) == CHOOSE i \in TurnPositions : Cardinality({j \in TurnPositions : j < i}) = k - 1

\* C30: as long as nothing has failed, the result list has one element per
\* position already passed whose id has turns, the k-th result carrying the
\* id at the k-th such position; a batch that returns has as many results as
\* there are such positions, an id listed twice counted twice.
C30_OneResultPerOccurrence ==
    pc # "raised" =>
        /\ Len(results) = Cardinality({i \in TurnPositions : i < idx})
        /\ \A k \in 1..Len(results) :
              results[k].chat_history_id = chat_history_ids[TurnPosition(k)]
        /\ pc = "done" => Len(results) = Cardinality(TurnPositions)

C30_Witness ==
    /\ pc = "done"
    /\ Len(chat_history_ids) = 2
    /\ chat_history_ids[1] = chat_history_ids[2]
    /\ TurnPositions = {1, 2}
    /\ Len(results) = 2
    /\ results[1].chat_history_id = results[2].chat_history_id

\* one processor from its construction through its batches
InitPipelineOnly == InitPipeline /\ IdleBatch /\ IdleFn /\ IdleText /\ IdleHttp /\ IdleThreads /\ IdleStore /\ IdleLife

SpecPipeline == InitPipelineOnly /\ [][NextPipeline]_vars

----------------------------------------------------------------------------
(* What a batch leaves alone                                                *)

\* a batch is under way or has ended on the constructed processor
InBatch == processor.status = "constructed" /\ pc # "idle"

\* C31: once the processor is constructed, no step of any batch on it changes
\* the credential cache, the environment and the record of resolver calls,
\* nor the processor's gateway handle and language-model key; and whenever a
\* batch runs or has ended, the gateway status it works with is the one the
\* constructor stored.
C31_BatchLeavesPipelineUnchanged ==
    [][processor.status = "constructed" =>
          /\ cache' = cache
          /\ environ' = environ
          /\ ncalls' = ncalls
          /\ last' = last
          /\ processor' = processor
          /\ pc' # "idle" => memory' = (processor'.memory # "None")]_vars

C31_Witness ==
    /\ InBatch
    /\ invocations = 2
    /\ pc = "done"
    /\ memory
    /\ Len(results) = 2
    /\ DOMAIN cache # {}

----------------------------------------------------------------------------
(* Termination of a batch                                                   *)

\* the ways the visit of one id can end
VisitEnds == {"skip", "result"} \cup ExternalFailures

\* how many visits of the i-th listed id have ended
VisitsEnded(i) ==
    Cardinality({k \in 1..Len(trace) : trace[k].i = i /\ trace[k].ev \in VisitEnds})

\* the batch has returned its results or propagated a failure
Ended == pc \in {"done", "raised"}

\* no id is visited twice; a batch that has returned has visited every
\* position once and none of the visits failed; a batch that has failed has
\* visited the positions before the failing one once, failed at the current
\* one with nothing after the failure, and has not touched the later ones
VisitedOnce ==
    /\ \A i \in 1..Len(chat_history_ids) : VisitsEnded(i) <= 1
    /\ pc = "done" =>
          /\ \A i \in 1..Len(chat_history_ids) : VisitsEnded(i) = 1
          /\ \A k \in 1..Len(trace) : trace[k].ev \notin ExternalFailures
    /\ pc = "raised" =>
          /\ idx \in 1..Len(chat_history_ids)
          /\ trace[Len(trace)] \in {Ev(e, idx) : e \in ExternalFailures}
          /\ \A k \in 1..(Len(trace) - 1) : trace[k].ev \notin ExternalFailures
          /\ \A i \in 1..(idx - 1) : VisitsEnded(i) = 1
          /\ \A k \in 1..Len(trace) : trace[k].i <= idx

\* C32: under the fairness of FairSpec every batch ends, by returning its
\* result list or by propagating a failed external call, and VisitedOnce
\* holds all along.
C32_BatchTerminates == <>Ended /\ []VisitedOnce

C32_Witness ==
    /\ pc = "raised"
    /\ memory
    /\ Len(chat_history_ids) = 2
    /\ idx = 2
    /\ VisitsEnded(1) = 1
    /\ VisitsEnded(2) = 1
    /\ trace[Len(trace)].ev = "completion_exc"

====
